---- MODULE Spec2Model ----
(***************************************************************************)
(* A model of the loannex-backend serverless handlers:                     *)
(*   - the trigger handlers (trigger-loan, trigger-loan-with-status,       *)
(*     trigger-pricing-only, trigger-selective-locks and its NexID         *)
(*     variant), as state machines that step from one await to the next;   *)
(*   - the lock-mode log analysis, as operators over a log text that is a  *)
(*     sequence of lines drawn from a vocabulary of concrete lines;        *)
(*   - the aggregator handlers (check-batch-results in its four variants,  *)
(*     get-pricing-results in its two variants).                           *)
(* JavaScript values are modelled by tags: "undefined", "null", strings    *)
(* and records; Truthy is JavaScript's ToBoolean on those tags.            *)
(***************************************************************************)
EXTENDS Integers, Sequences, FiniteSets, TLC

VARIABLES trig, lock, price, batch, race

vars == <<trig, lock, price, batch, race>>

(***************************************************************************)
(* JavaScript values                                                       *)
(***************************************************************************)

\* ToBoolean of the value tags used for request fields: undefined, null and
\* the empty string are falsy; every object (the empty one included) is truthy.
Truthy(v) == v \notin {"undefined", "null", "emptyString"}

\* The range of a sequence.
Range(s) == {s[i] : i \in 1..Len(s)}

RECURSIVE SeqsUpTo(_, _)
\* All sequences over S of length at most n.
SeqsUpTo(S, n) ==
    IF n = 0 THEN {<<>>}
    ELSE LET shorter == SeqsUpTo(S, n - 1)
         IN  shorter \cup {Append(q, x) : q \in {t \in shorter : Len(t) = n - 1}, x \in S}

(***************************************************************************)
(* Log texts. A log text is a sequence of lines joined by newlines; a line *)
(* is one of the concrete lines below, and what the handlers ask of a text *)
(* (substring tests, regular expressions, indexOf) is answered from the    *)
(* characters of those lines. # stands for the lock emoji, which is two    *)
(* UTF-16 code units long.                                                 *)
(*   MarkerSuccess        # LOCK_RESULT: {"lock_status":"success",        *)
(*                           "nex_id":"NX123","borrower_name":"Jane Doe"}  *)
(*   MarkerSuccessMessage # LOCK_RESULT: {"lock_status":"success",        *)
(*                           "nex_id":"NX123","message":"Lock confirmed"}  *)
(*   MarkerFailed         # LOCK_RESULT: {"lock_status":"failed",         *)
(*                           "failure_reason":"Rate not available"}        *)
(*   MarkerUnparsable     # LOCK_RESULT: {lock_status: success}           *)
(*   SelectiveSuccess     SUCCESS: SELECTIVE-LOCK completed                *)
(*   AutoSuccess          SUCCESS: AUTO-PROCESS loan locked                *)
(*   SubmitClicked        Submit Lock button clicked successfully          *)
(*   InvestorFailed       FAILED: Could not select investor 'Acme Capital' *)
(*   AutoFailed           FAILED: AUTO-PROCESS loan was not locked         *)
(*   LoginOk              SUCCESS: Logged in to LoanNex                    *)
(*   NexIdExtracted       Successfully extracted NexID: ZZ999              *)
(*   Noise                Starting browser automation                      *)
(***************************************************************************)

Lines ==
    {"MarkerSuccess", "MarkerSuccessMessage", "MarkerFailed", "MarkerUnparsable",
     "SelectiveSuccess", "AutoSuccess", "SubmitClicked", "InvestorFailed",
     "AutoFailed", "LoginOk", "NexIdExtracted", "Noise"}

\* Longest log text, in lines.
MaxLogLines == 2

\* The substrings and regular expressions of the handlers that a line matches.
\* A regular expression is named by its source text.
LineMatches(line) ==
    CASE line \in {"MarkerSuccess", "MarkerSuccessMessage", "MarkerFailed", "MarkerUnparsable"} ->
           {"LOCK_RESULT", "/LOCK_RESULT[^{]*({[^}]+})/", "/LOCK_RESULT: ({.*})/"}
           \cup (IF line \in {"MarkerSuccess", "MarkerSuccessMessage"}
                 THEN {"/nex_id: ([A-Z0-9-]+)/i"} ELSE {})
           \cup (IF line = "MarkerSuccess" THEN {"/borrower_name: ([^']+)/i"} ELSE {})
      [] line = "SelectiveSuccess" ->
           {"SUCCESS", "SUCCESS: SELECTIVE-LOCK completed",
            "/SUCCESS: (AUTO-PROCESS|SELECTIVE-LOCK) completed/i"}
      [] line = "AutoSuccess" ->
           {"SUCCESS", "locked", "AUTO-PROCESS",
            "/SUCCESS: AUTO-PROCESS (loan )?(locked|completed)/i"}
      [] line = "SubmitClicked" ->
           {"Submit Lock button clicked successfully",
            "/Submit Lock button clicked successfully/i"}
      [] line = "InvestorFailed" ->
           {"FAILED", "FAILED:", "Could not",
            "/FAILED: Could not select investor '([^']+)'/"}
      [] line = "AutoFailed" ->
           {"FAILED", "FAILED:", "locked", "AUTO-PROCESS", "/FAILED: AUTO-PROCESS/i"}
      [] line = "LoginOk" -> {"SUCCESS"}
      [] line = "NexIdExtracted" -> {"/Successfully extracted NexID: ([A-Z0-9-]+)/i"}
      [] OTHER -> {}

\* line.length
LineLength(line) ==
    CASE line \in {"MarkerSuccess", "MarkerSuccessMessage"} -> 85
      [] line = "MarkerFailed" -> 78
      [] line = "MarkerUnparsable" -> 38
      [] line \in {"SelectiveSuccess", "AutoSuccess"} -> 33
      [] line = "SubmitClicked" -> 39
      [] line = "InvestorFailed" -> 48
      [] line = "AutoFailed" -> 40
      [] line = "LoginOk" -> 29
      [] line = "NexIdExtracted" -> 35
      [] OTHER -> 27

\* line.indexOf(token), for the tokens whose position the handlers read.
OffsetInLine(line, token) ==
    CASE token = "SUCCESS" -> 0
      [] token = "AUTO-PROCESS" /\ line = "AutoSuccess" -> 9
      [] token = "AUTO-PROCESS" /\ line = "AutoFailed" -> 8
      [] OTHER -> 0

LogTexts == SeqsUpTo(Lines, MaxLogLines)

\* text.includes(token), text.match(regex) !== null
Includes(text, token) == \E i \in 1..Len(text) : token \in LineMatches(text[i])

\* The first line of the text that matches the token (0 when none does).
FirstLineWith(text, token) ==
    IF Includes(text, token)
    THEN CHOOSE i \in 1..Len(text) :
            /\ token \in LineMatches(text[i])
            /\ \A j \in 1..(i - 1) : token \notin LineMatches(text[j])
    ELSE 0

\* The first of the given places of a text, 0 when there is none.
FirstPlace(places) ==
    IF places = {} THEN 0 ELSE CHOOSE i \in places : \A j \in places : i <= j

RECURSIVE LengthBefore(_, _)
\* The number of characters of the text before its line i, newlines included.
LengthBefore(text, i) ==
    IF i <= 1 THEN 0 ELSE LengthBefore(text, i - 1) + LineLength(text[i - 1]) + 1

\* text.indexOf(token), -1 when the token does not occur.
IndexOf(text, token) ==
    IF Includes(text, token)
    THEN LengthBefore(text, FirstLineWith(text, token))
         + OffsetInLine(text[FirstLineWith(text, token)], token)
    ELSE -1

\* What a log request can produce: a redirect to the archive (302), a 2xx
\* answer carrying the text, another status, or a rejected fetch.
LogOutcomes ==
    {[kind |-> k, text |-> t] : k \in {"redirect", "ok"}, t \in LogTexts}
    \cup {[kind |-> "notok", text |-> <<>>], [kind |-> "rejects", text |-> <<>>]}

(***************************************************************************)
(* Trigger handlers                                                        *)
(***************************************************************************)

\* The five trigger handlers of the repository.
TL   == "trigger-loan"
TLS  == "trigger-loan-with-status"
TPO  == "trigger-pricing-only"
TSL  == "trigger-selective-locks"
TSLN == "trigger-selective-locks-nexid"

TriggerVariants == {TL, TLS, TPO, TSL, TSLN}

\* Largest loanIndex a request carries.
MaxLoanIndex == 1

\* monitorWorkflowCompletion's default cap on the number of polls.
maxAttempts == 40

Methods == {"OPTIONS", "GET", "POST"}

\* loanData as the handler sees it after destructuring req.body.
LoanDataValues == {"undefined", "null", "emptyString", "emptyObject", "record", "recordWithNexId"}

CredentialValues == {"undefined", "emptyObject", "creds"}

\* A request without a parsed body carries no fields at all.
TriggerRequests ==
    [method : Methods, hasBody : {TRUE}, loanData : LoanDataValues,
     credentials : CredentialValues, loanIndex : 0..MaxLoanIndex]
    \cup [method : Methods, hasBody : {FALSE}, loanData : {"undefined"},
          credentials : {"undefined"}, loanIndex : {0}]

\* Upstream status codes of a refused dispatch.
DispatchErrorStatuses == {401, 422}

NoResponse == [sent |-> "none"]

\* res.status(200).end(): a response without a body.
EmptyResponse(code) == [sent |-> "empty", status |-> code]

\* res.status(code).json(body)
JsonResponse(code, body) == [sent |-> "json", status |-> code, body |-> body]

\* The handler's promise rejected before any response was sent.
Threw(err) == [sent |-> "threw", error |-> err]

\* The body of the 405 answer, the same in every handler.
MethodNotAllowedBody == [error |-> "Method not allowed"]

\* The body of the 400 answer of the trigger handlers.
MissingFieldsBody == [success |-> FALSE, message |-> "Missing required loan data or credentials"]

\* loanData.nex_id || loanData.nexId || ''
NexIdOf(loanData) == IF loanData = "recordWithNexId" THEN "NX123" ELSE ""

\* The catch block of a trigger handler, given the caught error. trigger-loan
\* and trigger-loan-with-status answer 500 with the error's message. The other
\* three build workflowStatus.runUrl from GITHUB_OWNER and GITHUB_REPO, which are
\* const bindings of the try block and not in scope in the catch block: building
\* the body throws a ReferenceError and nothing is sent.
TriggerCatch(v, err) ==
    CASE v = TL ->
           JsonResponse(500, [success |-> FALSE, message |-> err, timestamp |-> "now"])
      [] v = TLS ->
           JsonResponse(500, [success |-> FALSE, message |-> err,
                              workflowStatus |-> [success |-> FALSE,
                                                  message |-> "Backend error occurred",
                                                  details |-> err],
                              timestamp |-> "now"])
      [] OTHER -> Threw([kind |-> "ReferenceError: GITHUB_OWNER is not defined"])

\* The error thrown when the dispatch call answers non-2xx.
DispatchFailed(status, text) == [kind |-> "GitHub dispatch failed", status |-> status, text |-> text]

TokenMissing == [kind |-> "GitHub token not configured"]

\* Destructuring an undefined req.body.
BodyUndefined == [kind |-> "TypeError: cannot destructure req.body"]

\* fetch rejected (network failure).
FetchRejected == [kind |-> "fetch failed"]

\* Reading .length or .filter of an undefined workflow_runs.
RunsUndefined == [kind |-> "TypeError: workflow_runs is undefined"]

(***************************************************************************)
(* The run list as the trigger handlers read it. A run's created_at is     *)
(* kept as its offset in milliseconds from the handler's Date.now().       *)
(***************************************************************************)

\* Longest run list a list-runs answer carries in the trigger handlers.
MaxListed == 2

\* workflowRunId when no run was found (null in the source).
NullRunId == 0

\* What the handlers read of a run, its id apart. The platform reports no
\* conclusion for a run that has not completed.
ListedRuns ==
    {r \in [created : {-10000, -45000, -150000},
            event : {"repository_dispatch", "push"},
            status : {"queued", "in_progress", "completed"},
            conclusion : {"null", "success", "failure"}] :
        r.status # "completed" => r.conclusion = "null"}

\* The run lists the platform answers with: newest first, a run's id being its
\* place in the answer.
RunLists ==
    {[i \in 1..Len(l) |-> [id |-> i, created |-> l[i].created, event |-> l[i].event,
                           status |-> l[i].status, conclusion |-> l[i].conclusion]] :
        l \in {m \in SeqsUpTo(ListedRuns, MaxListed) :
                  \A i \in 1..(Len(m) - 1) : m[i].created >= m[i + 1].created}}

\* What one list-runs request can produce: a 2xx answer with a run list, a 2xx
\* answer whose body has no workflow_runs, a non-2xx answer, or a rejection.
ListOutcomes ==
    {[kind |-> "ok", runs |-> l] : l \in RunLists}
    \cup {[kind |-> "malformed"], [kind |-> "notok"], [kind |-> "rejects"]}

RECURSIVE InsertNewestFirst(_, _)
\* x inserted into s, which is ordered newest first, after the runs that are
\* as new as x (Array.prototype.sort is stable).
InsertNewestFirst(x, s) ==
    IF s = <<>> THEN <<x>>
    ELSE IF Head(s).created >= x.created THEN <<Head(s)>> \o InsertNewestFirst(x, Tail(s))
         ELSE <<x>> \o s

RECURSIVE SortNewestFirst(_)
\* runs.sort((a, b) => new Date(b.created_at) - new Date(a.created_at))
SortNewestFirst(s) ==
    IF s = <<>> THEN <<>>
    ELSE InsertNewestFirst(s[Len(s)], SortNewestFirst(SubSeq(s, 1, Len(s) - 1)))

\* The runs created after Date.now() - windowMs, newest first.
RecentRuns(runs, windowMs) ==
    SortNewestFirst(SelectSeq(runs, LAMBDA r : r.created > 0 - windowMs))

\* trigger-loan: the id of the newest run of the last minute that is a
\* repository_dispatch run or is queued or in progress; failing that, the id of
\* the newest run of the last minute; failing that, null.
FindWorkflowRunId(runs) ==
    LET matching == SortNewestFirst(SelectSeq(runs, LAMBDA r :
                        /\ r.created > 0 - 60000
                        /\ (r.event = "repository_dispatch"
                            \/ r.status = "queued" \/ r.status = "in_progress")))
        anyRecent == RecentRuns(runs, 60000)
    IN  IF Len(matching) > 0 THEN matching[1].id
        ELSE IF Len(anyRecent) > 0 THEN anyRecent[1].id
        ELSE NullRunId

\* trigger-pricing-only and trigger-selective-locks: the run whose html_url is
\* answered as runUrl, the newest run of the last 30 seconds; NullRunId stands for
\* the repository's actions page, the default when the list could not be read.
FindRunUrl(outcome) ==
    IF outcome.kind = "ok" /\ Len(RecentRuns(outcome.runs, 30000)) > 0
    THEN RecentRuns(outcome.runs, 30000)[1].id
    ELSE NullRunId

\* extractErrorFromLogs: the message of the first specific pattern the text
\* matches, else a fixed message for the first line with a failure indicator,
\* else the default.
extractErrorFromLogs(logs) ==
    IF Includes(logs, "/FAILED: Could not select investor '([^']+)'/")
    THEN [message |-> "Investor \"Acme Capital\" not found in LoanNex"]
    ELSE IF \E t \in {"FAILED:", "ERROR:", "Could not", "Login failed", "Error in",
                       "Exception:", "Traceback"} : Includes(logs, t)
    THEN [message |-> "Automation encountered an error"]
    ELSE [message |-> "Loan processing failed"]

\* analyzeWorkflowResult: with the logs read, success iff they hold the Submit
\* Lock phrase; without them (a non-2xx answer or a rejected fetch), success iff
\* the run concluded 'success'.
analyzeWorkflowResult(workflowRun, logsOutcome) ==
    IF logsOutcome.kind \in {"ok", "redirect"}
    THEN IF Includes(logsOutcome.text, "Submit Lock button clicked successfully")
         THEN [success |-> TRUE, message |-> "Loan successfully processed and locked in LoanNex"]
         ELSE [success |-> FALSE, message |-> extractErrorFromLogs(logsOutcome.text).message]
    ELSE IF workflowRun.conclusion = "success"
         THEN [success |-> TRUE, message |-> "Loan successfully processed and locked in LoanNex"]
         ELSE [success |-> FALSE, message |-> "Loan processing failed during automation"]

\* The result monitorWorkflowCompletion returns when its polls are used up.
MonitorTimedOut ==
    [success |-> FALSE,
     message |-> "Workflow monitoring timed out - automation may still be running"]

(***************************************************************************)
(* One invocation of a trigger handler. trig.pc is the await the handler   *)
(* is suspended at: "dispatch" (the dispatch call), "sleep" (the wait      *)
(* after a successful dispatch), "list" (the list-runs call of the         *)
(* trigger-and-return handlers), "monitor" (the list-runs call of a poll   *)
(* of monitorWorkflowCompletion), "monitorSleep" (the wait that ends a     *)
(* poll), "analyze" (the log request of analyzeWorkflowResult); "idle"     *)
(* before the first request and "done" once the invocation has ended.      *)
(***************************************************************************)

TrigIdle ==
    [pc |-> "idle", v |-> TL,
     req |-> [method |-> "POST", hasBody |-> FALSE, loanData |-> "undefined",
              credentials |-> "undefined", loanIndex |-> 0],
     token |-> FALSE, dispatches |-> 0, lists |-> 0, attempt |-> 0,
     dispatchOutcome |-> [kind |-> "none"],
     latestRun |-> NullRunId, conclusion |-> "null", payloadIndex |-> 0,
     resp |-> NoResponse]

\* The invocation ends with the response r.
TrigEnd(t, r) == [t EXCEPT !.pc = "done", !.resp = r]

\* The mutant of TriggerAck: the one-based loan number of the handler's log
\* lines (loanIndex + 1) is answered in place of loanIndex.
TriggerAckOneBased(t, run) ==
    [success |-> TRUE, message |-> "GitHub Actions workflow triggered successfully",
     workflowRunId |-> run, loanIndex |-> t.req.loanIndex + 1, timestamp |-> "now"]

\* The 200 answer of a trigger-and-return handler.
TriggerAck(t, run) ==
    CASE t.v = TL ->
           [success |-> TRUE, message |-> "GitHub Actions workflow triggered successfully",
            workflowRunId |-> run, loanIndex |-> t.req.loanIndex, timestamp |-> "now"]
      [] t.v = TPO ->
           [success |-> TRUE, message |-> "Pricing workflow triggered successfully",
            workflowStatus |-> [success |-> FALSE, runUrl |-> run,
                                conclusion |-> "pricing_triggered"],
            loanIndex |-> t.req.loanIndex, timestamp |-> "now"]
      [] t.v = TSL ->
           [success |-> TRUE, message |-> "Selective lock workflow triggered successfully",
            workflowStatus |-> [success |-> FALSE, runUrl |-> run,
                                conclusion |-> "selective_lock_triggered"],
            loanIndex |-> t.req.loanIndex, timestamp |-> "now"]
      [] OTHER ->
           [success |-> TRUE, message |-> "Selective lock workflow triggered",
            workflowStatus |-> [success |-> FALSE, runUrl |-> run,
                                conclusion |-> "selective_lock_triggered"],
            loanIndex |-> t.req.loanIndex, nexId |-> NexIdOf(t.req.loanData),
            timestamp |-> "now"]

\* trigger-loan's 200 answer when the list-runs call answered non-2xx: the
\* dispatch worked, the run id is not available.
TriggerAckWithoutRuns(t) ==
    [success |-> TRUE, message |-> "GitHub Actions workflow triggered successfully",
     workflowRunId |-> NullRunId, loanIndex |-> t.req.loanIndex, timestamp |-> "now",
     note |-> "Workflow started but run ID not available"]

\* The 200 answer of trigger-loan-with-status, carrying the monitor's result.
MonitoredAck(t, workflowResult) ==
    [success |-> TRUE, message |-> "Workflow completed with monitoring",
     workflowStatus |-> workflowResult, loanIndex |-> t.req.loanIndex,
     timestamp |-> "now"]

\* The handler from its entry to its first await: the method checks, the
\* destructuring of req.body, the required-field check, the token check, and the
\* dispatch call being issued.
HandleTriggerRequest(v, r, tok) ==
    LET t == [TrigIdle EXCEPT !.v = v, !.req = r, !.token = tok]
    IN  IF r.method = "OPTIONS" THEN TrigEnd(t, EmptyResponse(200))
        ELSE IF r.method # "POST" THEN TrigEnd(t, JsonResponse(405, MethodNotAllowedBody))
        ELSE IF ~r.hasBody THEN TrigEnd(t, TriggerCatch(v, BodyUndefined))
        ELSE IF ~Truthy(r.loanData) \/ ~Truthy(r.credentials)
             THEN TrigEnd(t, JsonResponse(400, MissingFieldsBody))
        ELSE IF ~tok THEN TrigEnd(t, TriggerCatch(v, TokenMissing))
        ELSE [t EXCEPT !.pc = "dispatch", !.dispatches = t.dispatches + 1,
                       !.payloadIndex = r.loanIndex]

TriggerRequest ==
    /\ trig.pc = "idle"
    /\ \E v \in TriggerVariants, r \in TriggerRequests, tok \in BOOLEAN :
          trig' = HandleTriggerRequest(v, r, tok)
    /\ UNCHANGED <<lock, price, batch, race>>

\* The mutant of AfterDispatch: a refused dispatch is issued once more.
AfterDispatchRetrying(t, outcome) ==
    LET u == [t EXCEPT !.dispatchOutcome = outcome]
    IN  CASE outcome.kind = "ok" -> [u EXCEPT !.pc = "sleep"]
          [] outcome.kind = "notok" /\ t.dispatches < 2 ->
               [u EXCEPT !.pc = "dispatch", !.dispatches = t.dispatches + 1]
          [] outcome.kind = "notok" ->
               TrigEnd(u, TriggerCatch(t.v, DispatchFailed(outcome.status, outcome.text)))
          [] OTHER -> TrigEnd(u, TriggerCatch(t.v, FetchRejected))

\* The dispatch call settles: 2xx, a refusal (whose status and body go into the
\* thrown error), or a rejected fetch.
AfterDispatch(t, outcome) ==
    LET u == [t EXCEPT !.dispatchOutcome = outcome]
    IN  CASE outcome.kind = "ok" -> [u EXCEPT !.pc = "sleep"]
          [] outcome.kind = "notok" ->
               TrigEnd(u, TriggerCatch(t.v, DispatchFailed(outcome.status, outcome.text)))
          [] OTHER -> TrigEnd(u, TriggerCatch(t.v, FetchRejected))

DispatchOutcomes ==
    {[kind |-> "ok"], [kind |-> "rejects"]}
    \cup {[kind |-> "notok", status |-> c, text |-> "Bad credentials"] : c \in DispatchErrorStatuses}

DispatchReturns ==
    /\ trig.pc = "dispatch"
    /\ \E outcome \in DispatchOutcomes : trig' = AfterDispatch(trig, outcome)
    /\ UNCHANGED <<lock, price, batch, race>>

\* The mutant of NextPoll: the loop's test is attempt <= maxAttempts.
NextPollOnceMore(t) ==
    IF t.attempt <= maxAttempts
    THEN [t EXCEPT !.pc = "monitor", !.lists = t.lists + 1]
    ELSE TrigEnd(t, JsonResponse(200, MonitoredAck(t, MonitorTimedOut)))

\* The poll loop's head: the next list-runs call is issued while attempt is
\* below maxAttempts; otherwise monitorWorkflowCompletion returns its timed-out
\* result and the handler answers.
NextPoll(t) ==
    IF t.attempt < maxAttempts
    THEN [t EXCEPT !.pc = "monitor", !.lists = t.lists + 1]
    ELSE TrigEnd(t, JsonResponse(200, MonitoredAck(t, MonitorTimedOut)))

\* The wait after the dispatch ends: the trigger-and-return handlers issue their
\* one list-runs call, trigger-loan-with-status enters its poll loop.
AfterSleep(t) ==
    IF t.v = TLS THEN NextPoll(t)
    ELSE [t EXCEPT !.pc = "list", !.lists = t.lists + 1]

SleepReturns ==
    /\ trig.pc = "sleep"
    /\ trig' = AfterSleep(trig)
    /\ UNCHANGED <<lock, price, batch, race>>

\* The list-runs call of a trigger-and-return handler settles. trigger-loan
\* makes the call outside any inner try: a rejected fetch or a body without
\* workflow_runs reaches the handler's catch block. The other handlers wrap the
\* call and keep the default runUrl on any failure.
AfterList(t, outcome) ==
    IF t.v = TL
    THEN CASE outcome.kind = "rejects" -> TrigEnd(t, TriggerCatch(t.v, FetchRejected))
           [] outcome.kind = "notok" -> TrigEnd(t, JsonResponse(200, TriggerAckWithoutRuns(t)))
           [] outcome.kind = "malformed" -> TrigEnd(t, TriggerCatch(t.v, RunsUndefined))
           [] OTHER -> TrigEnd(t, JsonResponse(200, TriggerAck(t, FindWorkflowRunId(outcome.runs))))
    ELSE TrigEnd(t, JsonResponse(200, TriggerAck(t, FindRunUrl(outcome))))

ListReturns ==
    /\ trig.pc = "list"
    /\ \E outcome \in ListOutcomes : trig' = AfterList(trig, outcome)
    /\ UNCHANGED <<lock, price, batch, race>>

\* The list-runs call of one poll settles. A non-2xx answer continues the loop
\* at once; a rejected fetch or a body without workflow_runs is caught and waits
\* 5 s; a newest recent run that is completed is analysed; anything else waits
\* 8 s.
AfterMonitorList(t, outcome) ==
    CASE outcome.kind = "notok" -> NextPoll([t EXCEPT !.attempt = t.attempt + 1])
      [] outcome.kind \in {"rejects", "malformed"} -> [t EXCEPT !.pc = "monitorSleep"]
      [] OTHER ->
           LET recentRuns == RecentRuns(outcome.runs, 120000)
           IN  IF Len(recentRuns) > 0 /\ recentRuns[1].status = "completed"
               THEN [t EXCEPT !.pc = "analyze", !.latestRun = recentRuns[1].id,
                              !.conclusion = recentRuns[1].conclusion]
               ELSE [t EXCEPT !.pc = "monitorSleep"]

MonitorListReturns ==
    /\ trig.pc = "monitor"
    /\ \E outcome \in ListOutcomes : trig' = AfterMonitorList(trig, outcome)
    /\ UNCHANGED <<lock, price, batch, race>>

MonitorSleepReturns ==
    /\ trig.pc = "monitorSleep"
    /\ trig' = NextPoll([trig EXCEPT !.attempt = trig.attempt + 1])
    /\ UNCHANGED <<lock, price, batch, race>>

\* The log request of analyzeWorkflowResult settles and the handler answers.
AfterAnalyze(t, logsOutcome) ==
    TrigEnd(t, JsonResponse(200,
        MonitoredAck(t, analyzeWorkflowResult([conclusion |-> t.conclusion], logsOutcome))))

AnalyzeReturns ==
    /\ trig.pc = "analyze"
    /\ \E logsOutcome \in LogOutcomes : trig' = AfterAnalyze(trig, logsOutcome)
    /\ UNCHANGED <<lock, price, batch, race>>

\* The invocation is over; the next one starts from nothing (the handlers keep
\* no state between requests).
InvocationEnds ==
    /\ trig.pc = "done"
    /\ trig' = TrigIdle
    /\ UNCHANGED <<lock, price, batch, race>>

LockIdle == [pc |-> "idle"]

PriceIdle == [pc |-> "idle"]

\* The requests of two callers that reach trigger-loan or
\* trigger-loan-with-status at about the same time.
Requests == {1, 2}

\* Two invocations and the platform they share: the runs it lists, newest
\* first, and the accepted dispatches whose run it has not created yet.
RaceIdle ==
    [runs |-> <<>>, pending |-> {},
     reqs |-> [i \in Requests |-> [pc |-> "idle", v |-> TL, answer |-> NullRunId]]]

\* What is kept of an aggregator's previous invocation for the caller's next
\* poll with the same batchStartTime: nothing, or the request, the platform's
\* list and the counts answered.
NoLast == [kind |-> "none"]

BatchIdle == [pc |-> "idle", last |-> NoLast]

InitTrigger == trig = TrigIdle /\ lock = LockIdle /\ price = PriceIdle /\ batch = BatchIdle /\ race = RaceIdle

NextTrigger ==
    \/ TriggerRequest
    \/ DispatchReturns
    \/ SleepReturns
    \/ ListReturns
    \/ MonitorListReturns
    \/ MonitorSleepReturns
    \/ AnalyzeReturns
    \/ InvocationEnds

SpecTrigger == InitTrigger /\ [][NextTrigger]_vars

\* Every await of the poll loop settles: a fetch answers or rejects, a timer
\* fires.
SpecTriggerLive ==
    /\ InitTrigger
    /\ [][NextTrigger]_vars
    /\ WF_vars(MonitorListReturns)
    /\ WF_vars(MonitorSleepReturns)
    /\ WF_vars(AnalyzeReturns)

(***************************************************************************)
(* Two interleaved invocations of trigger-loan or trigger-loan-with-status *)
(* against one platform. The run the platform creates for the dispatch of  *)
(* request i has id i; times are offsets from the moment of the listing.   *)
(***************************************************************************)

\* A run somebody else started on the repository half a minute ago.
ForeignRun ==
    [id |-> 9, created |-> -30000, event |-> "push", status |-> "completed",
     conclusion |-> "success"]

\* The run the platform creates for the dispatch of request i, newer than the
\* runs it lists already.
DispatchedRun(i, listed) ==
    [id |-> i, created |-> -5000 + 1000 * Len(listed), event |-> "repository_dispatch",
     status |-> "queued", conclusion |-> "null"]

\* A request with its fields and the token in place reaches the handler, which
\* issues its dispatch call.
RaceRequest(i) ==
    /\ race.reqs[i].pc = "idle"
    /\ \E v \in {TL, TLS} :
          race' = [race EXCEPT !.reqs[i].pc = "dispatch", !.reqs[i].v = v]
    /\ UNCHANGED <<trig, lock, price, batch>>

\* The dispatch call is accepted and the handler waits; the platform will
\* create the run.
RaceDispatchReturns(i) ==
    /\ race.reqs[i].pc = "dispatch"
    /\ race' = [race EXCEPT !.reqs[i].pc = "sleep", !.pending = race.pending \cup {i}]
    /\ UNCHANGED <<trig, lock, price, batch>>

\* The platform creates the run of an accepted dispatch.
RaceRunCreated(i) ==
    /\ i \in race.pending
    /\ race' = [race EXCEPT !.pending = race.pending \ {i},
                            !.runs = <<DispatchedRun(i, race.runs)>> \o race.runs]
    /\ UNCHANGED <<trig, lock, price, batch>>

\* The run of request i completes.
RaceRunCompletes(i) ==
    /\ \E k \in 1..Len(race.runs) :
          /\ race.runs[k].id = i
          /\ race.runs[k].status # "completed"
          /\ race' = [race EXCEPT !.runs[k].status = "completed",
                                  !.runs[k].conclusion = "success"]
    /\ UNCHANGED <<trig, lock, price, batch>>

\* A wait of the handler ends (after the dispatch, or between two polls) and
\* it issues a list-runs call.
RaceSleepReturns(i) ==
    /\ race.reqs[i].pc \in {"sleep", "monitorSleep"}
    /\ race' = [race EXCEPT !.reqs[i].pc = "list"]
    /\ UNCHANGED <<trig, lock, price, batch>>

\* The list-runs call answers with the platform's runs. trigger-loan answers
\* the id FindWorkflowRunId picks; monitorWorkflowCompletion takes the newest
\* run of the last two minutes and reports it once it is completed, else
\* waits for the next poll.
RaceListReturns(i) ==
    /\ race.reqs[i].pc = "list"
    /\ LET recentRuns == RecentRuns(race.runs, 120000)
       IN  race' =
             IF race.reqs[i].v = TL
             THEN [race EXCEPT !.reqs[i].pc = "done",
                               !.reqs[i].answer = FindWorkflowRunId(race.runs)]
             ELSE IF Len(recentRuns) > 0 /\ recentRuns[1].status = "completed"
             THEN [race EXCEPT !.reqs[i].pc = "done", !.reqs[i].answer = recentRuns[1].id]
             ELSE [race EXCEPT !.reqs[i].pc = "monitorSleep"]
    /\ UNCHANGED <<trig, lock, price, batch>>

InitRace ==
    /\ trig = TrigIdle /\ lock = LockIdle /\ price = PriceIdle /\ batch = BatchIdle
    /\ \E listed \in {<<>>, <<ForeignRun>>} : race = [RaceIdle EXCEPT !.runs = listed]

NextRace ==
    \E i \in Requests :
        \/ RaceRequest(i)
        \/ RaceDispatchReturns(i)
        \/ RaceRunCreated(i)
        \/ RaceRunCompletes(i)
        \/ RaceSleepReturns(i)
        \/ RaceListReturns(i)

SpecRace == InitRace /\ [][NextRace]_vars

\* C24: the run an invocation reports (workflowRunId of trigger-loan, the run
\* behind workflowStatus of trigger-loan-with-status) is the run the platform
\* created for that invocation's own dispatch, never the run of the other
\* request's dispatch.
C24_OwnRunReported ==
    \A i, j \in Requests :
        (race.reqs[i].pc = "done" /\ race.reqs[i].answer = j) => j = i

(***************************************************************************)
(* Lock-mode log analysis: the four variants of check-batch-results        *)
(***************************************************************************)

\* The handlers of src/api/check-batch-results.js (first and second export)
\* and of src/unnamed/part_001 (first and second export).
CBR1 == "check-batch-results#1"
CBR2 == "check-batch-results#2"
CBR3 == "check-batch-results#3"
CBR4 == "check-batch-results#4"
LockVariants == {CBR1, CBR2, CBR3, CBR4}

\* A loanIndex of a result: the sentinel 'Unknown' or a number.
UnknownIndex == [unknown |-> TRUE]
NumberIndex(n) == [number |-> n]

\* a || b
Or(a, b) == IF Truthy(a) THEN a ELSE b

\* JSON.parse of the braces of a marker line: whether it parses, and the fields
\* of the parsed object the handlers read ("undefined" for an absent one).
MarkerOf(line) ==
    CASE line = "MarkerSuccess" ->
           [parses |-> TRUE, lock_status |-> "success", nex_id |-> "NX123",
            borrower_name |-> "Jane Doe", message |-> "undefined",
            failure_reason |-> "undefined"]
      [] line = "MarkerSuccessMessage" ->
           [parses |-> TRUE, lock_status |-> "success", nex_id |-> "NX123",
            borrower_name |-> "undefined", message |-> "Lock confirmed",
            failure_reason |-> "undefined"]
      [] line = "MarkerFailed" ->
           [parses |-> TRUE, lock_status |-> "failed", nex_id |-> "undefined",
            borrower_name |-> "undefined", message |-> "undefined",
            failure_reason |-> "Rate not available"]
      [] OTHER ->
           [parses |-> FALSE, lock_status |-> "undefined", nex_id |-> "undefined",
            borrower_name |-> "undefined", message |-> "undefined",
            failure_reason |-> "undefined"]

\* What the logs request of a completed run can produce for the aggregators:
\* the outcomes of LogOutcomes, and a 2xx body that is not a gzip stream.
BatchLogOutcomes == LogOutcomes \cup {[kind |-> "notgzip", text |-> <<>>]}

\* The conclusions of a run handed to the analysis.
Conclusions == {"success", "failure", "cancelled", "null"}

\* The result the first analyzeWorkflowLogs hands over when it falls back.
Fallback == [status |-> "fallback"]

Abs(n) == IF n < 0 THEN 0 - n ELSE n

\* The mutant of analyzeWorkflowMultipleWays1: a run that reached a conclusion
\* is taken as locked.
analyzeWorkflowMultipleWaysByCompletion(workflow) ==
    [workflowId |-> workflow.id, loanIndex |-> UnknownIndex, borrowerName |-> "Unknown",
     nexId |-> "null", locked |-> (workflow.conclusion # "null"),
     errorMessage |-> "Could not determine lock status from logs",
     status |-> "workflow_conclusion_only"]

\* First variant, check-batch-results.js 342-394: without readable evidence
\* the run is reported not locked, whatever its conclusion.
analyzeWorkflowMultipleWays1(workflow) ==
    [workflowId |-> workflow.id, loanIndex |-> UnknownIndex, borrowerName |-> "Unknown",
     nexId |-> "null", locked |-> FALSE,
     errorMessage |->
        IF workflow.conclusion = "failure" THEN "Workflow failed"
        ELSE IF workflow.conclusion = "success"
             THEN "Workflow succeeded but lock status unknown (logs unreadable)"
             ELSE "Could not determine lock status from logs",
     status |-> "workflow_conclusion_only"]

\* First variant, check-batch-results.js 197-326: the search of the downloaded
\* text. Fallback when the text holds no evidence either way.
PatternSearch(workflow, rawData) ==
    LET hasSuccess == Includes(rawData, "SUCCESS")
        hasFailed  == Includes(rawData, "FAILED") \/ Includes(rawData, "ERROR")
        markerLine == IF Includes(rawData, "LOCK_RESULT")
                      THEN FirstLineWith(rawData, "/LOCK_RESULT[^{]*({[^}]+})/")
                      ELSE 0
        lockResult == MarkerOf(IF markerLine = 0 THEN "Noise" ELSE rawData[markerLine])
        parsed     == markerLine # 0 /\ lockResult.parses
        nexId      == IF parsed THEN lockResult.nex_id ELSE "null"
        borrowerName == IF parsed THEN Or(lockResult.borrower_name, "Unknown") ELSE "Unknown"
        markerMessage == IF parsed THEN Or(lockResult.message, lockResult.failure_reason)
                         ELSE "null"
        byMarker   == parsed /\ lockResult.lock_status = "success"
        bySelective == Includes(rawData, "SUCCESS: SELECTIVE-LOCK completed")
        byAutoMatch == Includes(rawData, "/SUCCESS: AUTO-PROCESS (loan )?(locked|completed)/i")
        hasAutoProcess == Includes(rawData, "AUTO-PROCESS") \/ Includes(rawData, "AUTO PROCESS")
        hasLockedNearby == Includes(rawData, "locked") \/ Includes(rawData, "LOCKED")
        autoPos    == IF IndexOf(rawData, "AUTO-PROCESS") # -1
                      THEN IndexOf(rawData, "AUTO-PROCESS")
                      ELSE IndexOf(rawData, "AUTO PROCESS")
        successPos == IndexOf(rawData, "SUCCESS")
        byProximity == /\ hasAutoProcess /\ hasSuccess /\ hasLockedNearby
                       /\ autoPos # -1 /\ successPos # -1
                       /\ Abs(autoPos - successPos) < 100
        locked     == byMarker \/ bySelective \/ byAutoMatch \/ byProximity
        errorMessage == IF ~locked /\ hasFailed /\ Includes(rawData, "/FAILED: AUTO-PROCESS/i")
                        THEN "FAILED: AUTO-PROCESS"
                        ELSE markerMessage
    IN  IF ~locked /\ ~Truthy(errorMessage) /\ ~hasSuccess /\ ~hasFailed
        THEN Fallback
        ELSE [workflowId |-> workflow.id, loanIndex |-> UnknownIndex,
              borrowerName |-> borrowerName, nexId |-> nexId, locked |-> locked,
              errorMessage |-> errorMessage, status |-> "pattern_search"]

\* First variant, check-batch-results.js 162-339: the text is read only behind a
\* 302 answer; every other outcome, and an empty search, goes to the fallback.
analyzeWorkflowLogs1(workflow, logs) ==
    IF logs.kind = "redirect" /\ PatternSearch(workflow, logs.text).status # "fallback"
    THEN PatternSearch(workflow, logs.text)
    ELSE analyzeWorkflowMultipleWays1(workflow)

\* What a jobs request can produce: a 2xx answer with the jobs, a 2xx answer
\* whose body has no jobs array, a non-2xx answer, or a rejected fetch.
JobNames == {"lock-loan", "pricing-only", "Price loan 0", "Process loan 1"}

\* Longest jobs list of a run.
MaxJobs == 1

JobLists == SeqsUpTo([name : JobNames, conclusion : {"success", "failure"}], MaxJobs)

JobsOutcomes ==
    {[kind |-> "ok", jobs |-> l] : l \in JobLists}
    \cup {[kind |-> "malformed", jobs |-> <<>>], [kind |-> "notok", jobs |-> <<>>],
          [kind |-> "rejects", jobs |-> <<>>]}

\* The number the patterns /loan[:\s]*(\d+)/i, /process[:\s]*(\d+)/i,
\* /price[:\s]*(\d+)/i and /\b(\d+)\b/ find in a job name, -1 when none does.
NumberInName(name) ==
    CASE name = "Price loan 0" -> 0
      [] name = "Process loan 1" -> 1
      [] OTHER -> -1

\* check-batch-results.js 930-947: the number of the first job name that
\* holds one, else 'Unknown'.
extractLoanIndexFromJobName(jobs) ==
    IF \E i \in 1..Len(jobs) : NumberInName(jobs[i].name) # -1
    THEN NumberIndex(NumberInName(jobs[CHOOSE i \in 1..Len(jobs) :
                              /\ NumberInName(jobs[i].name) # -1
                              /\ \A j \in 1..(i - 1) : NumberInName(jobs[j].name) = -1].name))
    ELSE UnknownIndex

\* The entry the analysis functions return from their catch block.
AnalysisError(workflow) ==
    [workflowId |-> workflow.id, loanIndex |-> UnknownIndex, borrowerName |-> "Unknown",
     nexId |-> "null", locked |-> FALSE, errorMessage |-> "Analysis error",
     status |-> "analysis_error"]

\* Second variant, check-batch-results.js 834-927: with the jobs listed, locked
\* iff the run concluded 'success'; with the jobs request refused, the same from
\* the conclusion alone; an exception gives the catch block's entry.
analyzeWorkflowMultipleWays2(workflow, jobs) ==
    CASE jobs.kind = "ok" ->
           [workflowId |-> workflow.id,
            loanIndex |-> extractLoanIndexFromJobName(jobs.jobs),
            borrowerName |-> "Unknown", nexId |-> "null",
            locked |-> (workflow.conclusion = "success"),
            errorMessage |->
               IF workflow.conclusion = "success" THEN "null"
               ELSE IF \E i \in 1..Len(jobs.jobs) : jobs.jobs[i].conclusion = "failure"
                    THEN "Job failed"
                    ELSE "Workflow concluded with conclusion",
            status |-> "job_based_analysis"]
      [] jobs.kind = "notok" ->
           [workflowId |-> workflow.id, loanIndex |-> UnknownIndex,
            borrowerName |-> "Unknown", nexId |-> "null",
            locked |-> (workflow.conclusion = "success"),
            errorMessage |-> IF workflow.conclusion = "success" THEN "null"
                             ELSE "Workflow failed with conclusion",
            status |-> "conclusion_based"]
      [] OTHER -> AnalysisError(workflow)

\* Second variant, check-batch-results.js 768-786 and 815-831: the loose
\* extractors, which read the whole text. extractNexId tries its patterns in
\* order, each over the whole text: the 'Successfully extracted NexID' pattern
\* comes before the nex_id pattern that a marker line matches.
extractNexId(logsText) ==
    IF Includes(logsText, "/Successfully extracted NexID: ([A-Z0-9-]+)/i") THEN "ZZ999"
    ELSE IF Includes(logsText, "/nex_id: ([A-Z0-9-]+)/i") THEN "NX123"
    ELSE "null"

extractBorrowerName(logsText) ==
    IF Includes(logsText, "/borrower_name: ([^']+)/i") THEN "Jane Doe" ELSE "Unknown"

\* Second variant, check-batch-results.js 718-737: the message of the first
\* failure pattern the text matches, null when none does.
FailureMessage2(logsText) ==
    CASE Includes(logsText, "/FAILED: (AUTO-PROCESS|SELECTIVE-LOCK) processing failed/i") ->
           "processing failed"
      [] Includes(logsText, "/Could not find or click Get Price button/i") ->
           "Failed to get pricing"
      [] Includes(logsText, "/Login failed/i") -> "Login failed"
      [] Includes(logsText, "/No loans available after filtering/i") ->
           "No loans available after filtering"
      [] Includes(logsText, "/Could not click initial Lock button/i") ->
           "Could not click Lock button"
      [] Includes(logsText, "/ERROR: (.+)/i") -> "text after ERROR:"
      [] OTHER -> "null"

\* Second variant, check-batch-results.js 672-752: the marker decides when the
\* text has one; the success phrases are tried only when it has none.
LogAnalysis2(workflow, logsText) ==
    LET markerLine == FirstLineWith(logsText, "/LOCK_RESULT: ({.*})/")
        lockResultMatch == markerLine # 0
        lockResult == MarkerOf(IF markerLine = 0 THEN "Noise" ELSE logsText[markerLine])
        parsed     == lockResultMatch /\ lockResult.parses
        byMarker   == parsed /\ lockResult.lock_status = "success"
        markerMessage == IF parsed THEN Or(lockResult.message, lockResult.failure_reason)
                         ELSE "null"
        byPhrase   == /\ ~lockResultMatch
                      /\ \E p \in {"/SUCCESS: (AUTO-PROCESS|SELECTIVE-LOCK) completed/i",
                                   "/Submit Lock button clicked successfully/i",
                                   "/SUCCESS: LOAN LOCKED/i",
                                   "/Lock completed successfully/i"} : Includes(logsText, p)
        locked     == byMarker \/ byPhrase
        errorMessage == IF ~locked /\ ~Truthy(markerMessage)
                        THEN IF FailureMessage2(logsText) # "null"
                             THEN FailureMessage2(logsText) ELSE markerMessage
                        ELSE markerMessage
    IN  [workflowId |-> workflow.id, loanIndex |-> UnknownIndex,
         borrowerName |-> extractBorrowerName(logsText), nexId |-> extractNexId(logsText),
         locked |-> locked, errorMessage |-> errorMessage, status |-> "log_analysis"]

\* Second variant, check-batch-results.js 643-765: the text is read only behind
\* a 302 answer; every other outcome goes to the jobs of the run.
analyzeWorkflowLogs2(workflow, logs, jobs) ==
    IF logs.kind = "redirect"
    THEN LogAnalysis2(workflow, logs.text)
    ELSE analyzeWorkflowMultipleWays2(workflow, jobs)

\* part_001 252-301 and 586-621: the message of the first error pattern the
\* text matches; else the first line with a failure token, its prefix removed;
\* else the default.
extractMainError(logs) ==
    CASE Includes(logs, "/FAILED: Could not select investor '([^']+)'/") ->
           "Investor \"Acme Capital\" not found in LoanNex"
      [] Includes(logs, "FAILED:") -> "Automation process failed"
      [] Includes(logs, "ERROR:") -> "Error occurred during processing"
      [] Includes(logs, "Could not") -> "text of the first failure line"
      [] OTHER -> "Unknown error - check GitHub Actions logs for details"

\* part_001 158-196 and 468-516: locked iff the text holds one of three
\* phrases; the marker is not read.
PhraseAnalysis(workflow, logs) ==
    LET locked == \E p \in {"Submit Lock button clicked successfully",
                            "SUCCESS: Loan processed and locked",
                            "Loan lock completed successfully"} : Includes(logs, p)
    IN  [workflowId |-> workflow.id, loanIndex |-> UnknownIndex, borrowerName |-> "Unknown",
         locked |-> locked,
         errorMessage |-> IF locked THEN "null" ELSE extractMainError(logs),
         status |-> "analyzed"]

\* The entry for a run whose logs request was refused, or whose body did not
\* decompress.
NoLogs(workflow, status, message) ==
    [workflowId |-> workflow.id, loanIndex |-> UnknownIndex, borrowerName |-> "Unknown",
     locked |-> FALSE, errorMessage |-> message, status |-> status]

\* part_001 129-211: the logs are requested with redirects followed and read
\* as text.
analyzeWorkflowForLoanResult(workflow, logs) ==
    CASE logs.kind = "rejects" -> NoLogs(workflow, "analysis_error", "Analysis error")
      [] logs.kind = "notok" ->
           NoLogs(workflow, "log_fetch_failed", "Could not fetch workflow logs")
      [] OTHER -> PhraseAnalysis(workflow, logs.text)

\* part_001 431-545: as above, the body being gunzipped first.
analyzeWorkflowWithDecompression(workflow, logs) ==
    CASE logs.kind = "rejects" -> NoLogs(workflow, "analysis_error", "Analysis error")
      [] logs.kind = "notok" ->
           NoLogs(workflow, "log_fetch_failed", "Could not fetch workflow logs")
      [] logs.kind = "notgzip" ->
           NoLogs(workflow, "decompression_failed", "Failed to decompress logs")
      [] OTHER -> PhraseAnalysis(workflow, logs.text)

\* The LoanResult a lock-mode handler computes for a completed run, given what
\* the platform answers to the logs request and to the jobs request.
AnalyzeRun(v, workflow, logs, jobs) ==
    CASE v = CBR1 -> analyzeWorkflowLogs1(workflow, logs)
      [] v = CBR2 -> analyzeWorkflowLogs2(workflow, logs, jobs)
      [] v = CBR3 -> analyzeWorkflowForLoanResult(workflow, logs)
      [] OTHER -> analyzeWorkflowWithDecompression(workflow, logs)

(***************************************************************************)
(* One analysis of one completed run. lock.pc is the await the analysis is *)
(* suspended at: "logs" (the logs request and, behind a 302, the download) *)
(* or "jobs" (the jobs request of the second variant's fallback).          *)
(***************************************************************************)

NoLogOutcome == [kind |-> "none", text |-> <<>>]
NoJobsOutcome == [kind |-> "none", jobs |-> <<>>]

\* The handler calls the analysis function of its variant for a run of its
\* completed partition.
AnalysisStarts ==
    /\ lock.pc = "idle"
    /\ \E v \in LockVariants, c \in Conclusions :
          lock' = [pc |-> "logs", v |-> v, workflow |-> [id |-> 1, conclusion |-> c],
                   logs |-> NoLogOutcome, jobs |-> NoJobsOutcome]
    /\ UNCHANGED <<trig, price, batch, race>>

\* The logs request is settled. Only the second variant goes on to a jobs
\* request, and only when it did not get the text.
LogsReturn ==
    /\ lock.pc = "logs"
    /\ \E o \in BatchLogOutcomes :
          lock' = IF lock.v = CBR2 /\ o.kind # "redirect"
                  THEN [lock EXCEPT !.pc = "jobs", !.logs = o]
                  ELSE [pc |-> "done", v |-> lock.v, workflow |-> lock.workflow,
                        logs |-> o, jobs |-> NoJobsOutcome,
                        result |-> AnalyzeRun(lock.v, lock.workflow, o, NoJobsOutcome)]
    /\ UNCHANGED <<trig, price, batch, race>>

\* The jobs request of analyzeWorkflowMultipleWays (second variant) is settled.
JobsReturn ==
    /\ lock.pc = "jobs"
    /\ \E j \in JobsOutcomes :
          lock' = [pc |-> "done", v |-> lock.v, workflow |-> lock.workflow,
                   logs |-> lock.logs, jobs |-> j,
                   result |-> AnalyzeRun(lock.v, lock.workflow, lock.logs, j)]
    /\ UNCHANGED <<trig, price, batch, race>>

\* The LoanResult has been handed to the handler.
AnalysisEnds ==
    /\ lock.pc = "done"
    /\ lock' = LockIdle
    /\ UNCHANGED <<trig, price, batch, race>>

InitLock == trig = TrigIdle /\ lock = LockIdle /\ price = PriceIdle /\ batch = BatchIdle /\ race = RaceIdle

NextLock == AnalysisStarts \/ LogsReturn \/ JobsReturn \/ AnalysisEnds

SpecLock == InitLock /\ [][NextLock]_vars

(***************************************************************************)
(* Claims about the lock-mode log analysis                                 *)
(***************************************************************************)

\* The lines that report a lock: a marker with lock_status 'success' or one of
\* the success phrases.
SuccessLines ==
    {"MarkerSuccess", "MarkerSuccessMessage", "SelectiveSuccess", "AutoSuccess",
     "SubmitClicked"}

MarkerLines == {"MarkerSuccess", "MarkerSuccessMessage", "MarkerFailed", "MarkerUnparsable"}

\* The finished analysis had the log text before it.
TextRead ==
    /\ lock.pc = "done"
    /\ IF lock.v \in {CBR1, CBR2}
       THEN lock.logs.kind = "redirect"
       ELSE lock.logs.kind \in {"ok", "redirect"}

\* C1: a LoanResult says locked only when the analysis read the run's log
\* text and the text holds a line that reports a lock; without the text, or
\* without such a line, locked is false whatever the run's conclusion.
C1_LockedOnlyWithMarker ==
    (lock.pc = "done" /\ lock.result.locked)
    => /\ TextRead
       /\ \E i \in 1..Len(lock.logs.text) : lock.logs.text[i] \in SuccessLines

\* C4: when every LOCK_RESULT line of the text parses and they agree on
\* lock_status (and there is at least one), locked is exactly whether that
\* lock_status is 'success', whatever phrases the text holds besides.
C4_MarkerDecides ==
    LET text == lock.logs.text
        markers == {i \in 1..Len(text) : text[i] \in MarkerLines}
    IN  ( /\ TextRead
          /\ markers # {}
          /\ \A i \in markers : MarkerOf(text[i]).parses
          /\ \A i, j \in markers : MarkerOf(text[i]).lock_status = MarkerOf(text[j]).lock_status )
        => \A i \in markers :
              lock.result.locked = (MarkerOf(text[i]).lock_status = "success")

\* The first marker line of the text, the one the handlers of
\* check-batch-results.js parse (0 when the text has none).
FirstMarker(text) == FirstPlace({i \in 1..Len(text) : text[i] \in MarkerLines})

\* C14: when the text's marker parses, the entry's nexId and borrowerName are
\* the marker's nex_id and borrower_name, whatever else the text holds.
C14_MarkerFieldsTrusted ==
    LET text == lock.logs.text
        marker == MarkerOf(text[FirstMarker(text)])
    IN  ( /\ TextRead
          /\ lock.v \in {CBR1, CBR2}
          /\ FirstMarker(text) # 0
          /\ marker.parses
          /\ lock.result.status \in {"pattern_search", "log_analysis"} )
        => /\ Truthy(marker.nex_id) => lock.result.nexId = marker.nex_id
           /\ Truthy(marker.borrower_name) => lock.result.borrowerName = marker.borrower_name

\* C19: a not-locked entry computed from a text that holds the line
\* FAILED: Could not select investor 'Acme Capital' carries the error message
\* Investor "Acme Capital" not found in LoanNex.
C19_InvestorMessage ==
    ( /\ TextRead
      /\ Includes(lock.logs.text, "/FAILED: Could not select investor '([^']+)'/")
      /\ ~lock.result.locked )
    => lock.result.errorMessage = "Investor \"Acme Capital\" not found in LoanNex"

\* The text of a line that holds a failure token, as the fallback of
\* extractMainError would hand it over: leading digits and the FAILED: or
\* ERROR: prefix removed, trimmed.
FailureLineText(line) ==
    CASE line = "AutoFailed" -> "AUTO-PROCESS loan was not locked"
      [] line = "InvestorFailed" -> "Could not select investor 'Acme Capital'"
      [] OTHER -> "null"

\* The generic failure tokens a line may hold.
HasFailureToken(line) ==
    \E t \in {"FAILED:", "ERROR:", "Could not", "Exception:", "Traceback"} :
        t \in LineMatches(line)

\* C22: when the text of a not-locked run matches no specific failure pattern
\* but holds a line with a generic failure token, the error message of the
\* part_001 analyses is the text of the first such line.
C22_GenericLineIsMessage ==
    LET text == lock.logs.text
        first == FirstPlace({i \in 1..Len(text) : HasFailureToken(text[i])})
    IN  ( /\ TextRead
          /\ lock.v \in {CBR3, CBR4}
          /\ ~lock.result.locked
          /\ ~Includes(text, "/FAILED: Could not select investor '([^']+)'/")
          /\ first # 0 )
        => lock.result.errorMessage = FailureLineText(text[first])

\* C28: an entry that reports the lock as successful carries no error
\* message (null, or undefined and so absent from the answer), whatever the
\* log text holds.
C28_LockedWithoutError ==
    (lock.pc = "done" /\ lock.result.locked /\ "errorMessage" \in DOMAIN lock.result)
    => lock.result.errorMessage \in {"null", "undefined"}

\* The lines that hold no marker and none of the phrases or patterns the
\* handlers search for (the bare word SUCCESS apart).
PlainLines == {"Noise", "LoginOk"}

GPR1 == "get-pricing-results#1"
GPR2 == "get-pricing-results#2"
PricingVariants == {GPR1, GPR2}

PricingLines ==
    {"PricingSuccess", "PricingNoStatus", "PricingError", "PricingPartial",
     "PricingUnparsable", "PricingCodeLine", "Noise"}

\* The line matches /$ PRICING_DATA_OUTPUT:\s*({.*})/
MatchesPricingOutput(line) == line \in PricingLines \ {"Noise"}

\* The line holds 'json.dumps' or 'print(f"'.
IsCodeLine(line) == line = "PricingCodeLine"

\* JSON.parse of the braces of a pricing line ("undefined" for an absent
\* field); parses is FALSE when JSON.parse throws.
PricingDataOf(line) ==
    CASE line = "PricingSuccess" ->
           [parses |-> TRUE, pricing_status |-> "success", borrower_name |-> "Jane Doe",
            best_rate |-> "6.875", first_option_rate |-> "undefined",
            error_message |-> "undefined"]
      [] line = "PricingNoStatus" ->
           [parses |-> TRUE, pricing_status |-> "undefined", borrower_name |-> "Jane Doe",
            best_rate |-> "undefined", first_option_rate |-> "7.125",
            error_message |-> "undefined"]
      [] line = "PricingError" ->
           [parses |-> TRUE, pricing_status |-> "error", borrower_name |-> "undefined",
            best_rate |-> "undefined", first_option_rate |-> "undefined",
            error_message |-> "No pricing available"]
      [] line = "PricingPartial" ->
           [parses |-> TRUE, pricing_status |-> "partial", borrower_name |-> "undefined",
            best_rate |-> "undefined", first_option_rate |-> "undefined",
            error_message |-> "undefined"]
      [] OTHER ->
           [parses |-> FALSE, pricing_status |-> "undefined", borrower_name |-> "undefined",
            best_rate |-> "undefined", first_option_rate |-> "undefined",
            error_message |-> "undefined"]

\* extractPricingFromLogs returned null.
NoPricingData == PricingDataOf("Noise")

\* get-pricing-results.js 221-253: the first match of the pattern in the whole
\* text is parsed; null when nothing matches or the parse throws.
extractPricingFromLogs1(logsText) ==
    LET n == FirstPlace({i \in 1..Len(logsText) : MatchesPricingOutput(logsText[i])})
    IN  IF n = 0 THEN NoPricingData ELSE PricingDataOf(logsText[n])

\* part_000 267-315: the first output line that is not a line of code is
\* parsed; null when there is none or the parse throws.
extractPricingFromLogs2(logsText) ==
    LET n == FirstPlace({i \in 1..Len(logsText) :
                            MatchesPricingOutput(logsText[i]) /\ ~IsCodeLine(logsText[i])})
    IN  IF n = 0 THEN NoPricingData ELSE PricingDataOf(logsText[n])

\* extractLoanIndexFromJobName(jobs) || extractLoanIndexFromWorkflow(workflow):
\* the first number of a job name unless it is 0 or there is none, in which
\* case the run's name, title and commit message are searched; they hold no
\* number here, so 'Unknown'.
PricingLoanIndex(jobs) ==
    IF /\ extractLoanIndexFromJobName(jobs) # UnknownIndex
       /\ extractLoanIndexFromJobName(jobs).number # 0
    THEN extractLoanIndexFromJobName(jobs)
    ELSE UnknownIndex

\* The entry extractRealPricingData returns from its catch block.
PricingFailed(workflow, message) ==
    [workflowId |-> workflow.id, loanIndex |-> UnknownIndex, borrowerName |-> "Unknown",
     pricingStatus |-> "error", errorMessage |-> message, extractionMethod |-> "error"]

\* job.name.toLowerCase() includes 'pricing' or 'price'
IsPricingJob(job) == job.name \in {"pricing-only", "Price loan 0"}

\* extractRealPricingData (get-pricing-results.js 122-218, part_000 161-264):
\* the jobs of the run, the log of its pricing job, the marker of that log.
\* Every failure on the way is caught and gives an entry with status 'error'.
extractRealPricingData(v, workflow, jobs, logs) ==
    IF jobs.kind = "rejects" THEN PricingFailed(workflow, "fetch failed")
    ELSE IF jobs.kind = "notok" THEN PricingFailed(workflow, "Failed to get jobs")
    ELSE IF jobs.kind = "malformed" THEN PricingFailed(workflow, "TypeError: jobs is undefined")
    ELSE IF ~\E i \in 1..Len(jobs.jobs) : IsPricingJob(jobs.jobs[i])
         THEN PricingFailed(workflow, "No pricing job found in workflow")
    ELSE IF logs.kind = "rejects" THEN PricingFailed(workflow, "fetch failed")
    ELSE IF logs.kind = "notok" THEN PricingFailed(workflow, "Failed to get job logs")
    ELSE LET pricingData == IF v = GPR1 THEN extractPricingFromLogs1(logs.text)
                            ELSE extractPricingFromLogs2(logs.text)
         IN  IF ~pricingData.parses
             THEN PricingFailed(workflow, "No pricing data found in logs")
             ELSE [workflowId |-> workflow.id,
                   loanIndex |-> PricingLoanIndex(jobs.jobs),
                   borrowerName |-> Or(pricingData.borrower_name, "Unknown"),
                   pricingStatus |-> Or(pricingData.pricing_status, "success"),
                   interestRate |-> Or(pricingData.best_rate, pricingData.first_option_rate),
                   errorMessage |-> Or(pricingData.error_message, "null"),
                   extractionMethod |-> "real_log_extraction"]

(***************************************************************************)
(* The extraction of one completed run's pricing, request by request       *)
(***************************************************************************)

PricingLogTexts == SeqsUpTo(PricingLines, MaxLogLines)

\* What the job-logs request can produce: a 2xx answer with the text, a
\* non-2xx answer, or a rejected fetch.
PricingLogOutcomes ==
    {[kind |-> "ok", text |-> t] : t \in PricingLogTexts}
    \cup {[kind |-> "notok", text |-> <<>>], [kind |-> "rejects", text |-> <<>>]}

\* The jobs answer lets the extraction go on to the job-logs request.
HasPricingJob(jobs) ==
    jobs.kind = "ok" /\ \E i \in 1..Len(jobs.jobs) : IsPricingJob(jobs.jobs[i])

\* The handler calls extractRealPricingData for a run of its completed
\* partition; the jobs request goes out.
ExtractionStarts ==
    /\ price.pc = "idle"
    /\ \E v \in PricingVariants, c \in Conclusions :
          price' = [pc |-> "jobs", v |-> v, workflow |-> [id |-> 1, conclusion |-> c],
                    jobs |-> NoJobsOutcome, logs |-> NoLogOutcome]
    /\ UNCHANGED <<trig, lock, batch, race>>

\* The jobs request is settled: without a pricing job the catch block's entry
\* is returned, with one the job-logs request goes out.
PricingJobsReturn ==
    /\ price.pc = "jobs"
    /\ \E j \in JobsOutcomes :
          price' = IF HasPricingJob(j)
                   THEN [price EXCEPT !.pc = "logs", !.jobs = j]
                   ELSE [pc |-> "done", v |-> price.v, workflow |-> price.workflow,
                         jobs |-> j, logs |-> NoLogOutcome,
                         result |-> extractRealPricingData(price.v, price.workflow,
                                                           j, NoLogOutcome)]
    /\ UNCHANGED <<trig, lock, batch, race>>

\* The job-logs request is settled and the entry is computed.
PricingLogsReturn ==
    /\ price.pc = "logs"
    /\ \E o \in PricingLogOutcomes :
          price' = [pc |-> "done", v |-> price.v, workflow |-> price.workflow,
                    jobs |-> price.jobs, logs |-> o,
                    result |-> extractRealPricingData(price.v, price.workflow,
                                                      price.jobs, o)]
    /\ UNCHANGED <<trig, lock, batch, race>>

\* The PricingResult has been handed to the handler.
ExtractionEnds ==
    /\ price.pc = "done"
    /\ price' = PriceIdle
    /\ UNCHANGED <<trig, lock, batch, race>>

InitPricing ==
    trig = TrigIdle /\ lock = LockIdle /\ price = PriceIdle /\ batch = BatchIdle /\ race = RaceIdle

NextPricing == ExtractionStarts \/ PricingJobsReturn \/ PricingLogsReturn \/ ExtractionEnds

SpecPricing == InitPricing /\ [][NextPricing]_vars

(***************************************************************************)
(* Claims about the pricing extraction                                     *)
(***************************************************************************)

\* The marker lines of a pricing job log: the output lines, not the echoed
\* line of code that prints them.
PricingMarkers(text) ==
    {i \in 1..Len(text) : MatchesPricingOutput(text[i]) /\ ~IsCodeLine(text[i])}

\* C20: when the pricing job's log was read and its marker lines hold
\* parsable JSON, the entry's borrowerName is the first marker's borrower_name
\* and its interestRate is that marker's best_rate_option.interest_rate, the
\* first pricing option's rate being used only when the best option gives
\* none: Jane Doe and 6.875 for the marker of the example.
C20_MarkerFieldsExtracted ==
    LET text == price.logs.text
        marker == PricingDataOf(text[FirstPlace(PricingMarkers(text))])
    IN  ( /\ price.pc = "done"
          /\ price.logs.kind = "ok"
          /\ PricingMarkers(text) # {}
          /\ \A i \in PricingMarkers(text) : PricingDataOf(text[i]).parses )
        => /\ price.result.extractionMethod = "real_log_extraction"
           /\ Truthy(marker.borrower_name) => price.result.borrowerName = marker.borrower_name
           /\ price.result.interestRate =
                 (IF Truthy(marker.best_rate) THEN marker.best_rate
                  ELSE marker.first_option_rate)

\* C29: when a job name of the run holds a number, the extracted entry's
\* loanIndex is that number (the first one found), 0 included; the run's own
\* name and the 'Unknown' sentinel are for runs without a numbered job.
C29_JobNumberIsLoanIndex ==
    ( /\ price.pc = "done"
      /\ price.result.extractionMethod = "real_log_extraction"
      /\ extractLoanIndexFromJobName(price.jobs.jobs) # UnknownIndex )
    => price.result.loanIndex = extractLoanIndexFromJobName(price.jobs.jobs)

(***************************************************************************)
(* Aggregator handlers: check-batch-results (four variants) and            *)
(* get-pricing-results (two variants). Times are offsets in milliseconds   *)
(* from the request's batchStartTime.                                      *)
(***************************************************************************)

BatchVariants == LockVariants \cup PricingVariants

\* Most runs the platform lists.
MaxRuns == 3

\* Runs per page of the paginated listing of part_000. The source asks for
\* per_page=100 and tests a page's length against 100; the model's platform
\* serves pages of PerPage runs and the test is against PerPage.
PerPage == 2

\* part_000 47: while (hasMore && page <= 5)
MaxPages == 5

\* per_page=50 of the unpaginated listings.
ListPageSize == 50

\* The buffer subtracted from batchStartTime to get the cutoff: 30 seconds,
\* except in the handlers of part_001, which take batchStartTime itself.
BufferMs(v) == IF v \in {CBR3, CBR4} THEN 0 ELSE 30000

\* created_at of a listed run: after batchStartTime, within the 30 seconds
\* before it, earlier than that.
CreatedOffsets == {5000, -20000, -40000}

\* What the platform answers to the requests about one run: the logs and jobs
\* requests of the lock-mode analysis, the jobs and job-log requests of the
\* pricing extraction.
Evidence(e) ==
    CASE e = "marker" ->
           [lockLogs |-> [kind |-> "redirect", text |-> <<"MarkerSuccess">>],
            lockJobs |-> [kind |-> "ok", jobs |-> <<[name |-> "lock-loan", conclusion |-> "success"]>>],
            pricingJobs |-> [kind |-> "ok", jobs |-> <<[name |-> "pricing-only", conclusion |-> "success"]>>],
            pricingLogs |-> [kind |-> "ok", text |-> <<"PricingSuccess">>]]
      [] e = "silent" ->
           [lockLogs |-> [kind |-> "redirect", text |-> <<"Noise">>],
            lockJobs |-> [kind |-> "ok", jobs |-> <<[name |-> "lock-loan", conclusion |-> "failure"]>>],
            pricingJobs |-> [kind |-> "ok", jobs |-> <<[name |-> "pricing-only", conclusion |-> "failure"]>>],
            pricingLogs |-> [kind |-> "ok", text |-> <<"PricingPartial">>]]
      [] e = "broken" ->
           [lockLogs |-> [kind |-> "redirect", text |-> <<"MarkerUnparsable">>],
            lockJobs |-> [kind |-> "rejects", jobs |-> <<>>],
            pricingJobs |-> [kind |-> "ok", jobs |-> <<[name |-> "lock-loan", conclusion |-> "success"]>>],
            pricingLogs |-> [kind |-> "ok", text |-> <<"PricingUnparsable">>]]
      [] OTHER ->
           [lockLogs |-> [kind |-> "notok", text |-> <<>>],
            lockJobs |-> [kind |-> "notok", jobs |-> <<>>],
            pricingJobs |-> [kind |-> "notok", jobs |-> <<>>],
            pricingLogs |-> [kind |-> "notok", text |-> <<>>]]

\* The runs the platform can list, their id and created_at apart.
RunProfiles ==
    { [status |-> "completed",   conclusion |-> "success", evidence |-> "marker"],
      [status |-> "completed",   conclusion |-> "failure", evidence |-> "silent"],
      [status |-> "completed",   conclusion |-> "success", evidence |-> "unavailable"],
      [status |-> "completed",   conclusion |-> "failure", evidence |-> "broken"],
      [status |-> "completed",   conclusion |-> "null",    evidence |-> "silent"],
      [status |-> "in_progress", conclusion |-> "null",    evidence |-> "unavailable"] }

\* The platform's run list: newest first, a run's id being its place in it.
Worlds ==
    {[i \in 1..Len(l) |-> [id |-> i, created |-> l[i].created, status |-> l[i].p.status,
                           conclusion |-> l[i].p.conclusion, evidence |-> l[i].p.evidence]] :
        l \in {m \in SeqsUpTo([created : CreatedOffsets, p : RunProfiles], MaxRuns) :
                  \A i \in 1..(Len(m) - 1) : m[i].created >= m[i + 1].created}}

\* A run list long enough to fill every page the paginated listing may ask for.
LongRuns == MaxPages * PerPage + 1

\* Long run lists: more than MaxRuns runs, all of one profile, newest first;
\* the first a runs created after batchStartTime, the next b within the 30
\* seconds before it, the others earlier.
LongWorlds ==
    {[i \in 1..t[1] |->
         [id |-> i,
          created |-> IF i <= t[2] THEN 5000 ELSE IF i <= t[2] + t[3] THEN -20000 ELSE -40000,
          status |-> p.status, conclusion |-> p.conclusion, evidence |-> p.evidence]] :
        t \in {u \in ((MaxRuns + 1)..LongRuns) \X (0..LongRuns) \X (0..LongRuns) :
                  u[2] + u[3] <= u[1]},
        p \in {[status |-> "completed", conclusion |-> "success", evidence |-> "marker"],
               [status |-> "in_progress", conclusion |-> "null", evidence |-> "unavailable"]}}

\* The run lists the platform can answer with.
PlatformLists == Worlds \cup LongWorlds

\* batchStartTime as the handler sees it after destructuring req.body.
BatchRequests ==
    [method : Methods, hasBody : {TRUE}, batchStartTime : {"undefined", "emptyString", "t0"}]
    \cup [method : Methods, hasBody : {FALSE}, batchStartTime : {"undefined"}]

\* The body of the 400 answer of the aggregators.
MissingStartBody == [success |-> FALSE, message |-> "Missing batch start time"]

\* The catch block of an aggregator handler.
BatchCatch(err) ==
    JsonResponse(500, [success |-> FALSE, message |-> err, timestamp |-> "now"])

ListFailed == [kind |-> "Failed to get workflow runs"]

\* runTime >= cutoffTime
InWindow(v, run) == run.created >= 0 - BufferMs(v)

RECURSIVE InsertOldestFirst(_, _)
\* x inserted into s, which is ordered oldest first, after the runs that are
\* as old as x (Array.prototype.sort is stable).
InsertOldestFirst(x, s) ==
    IF s = <<>> THEN <<x>>
    ELSE IF Head(s).created <= x.created THEN <<Head(s)>> \o InsertOldestFirst(x, Tail(s))
         ELSE <<x>> \o s

RECURSIVE SortOldestFirst(_)
\* runs.sort((a, b) => new Date(a.created_at) - new Date(b.created_at))
SortOldestFirst(s) ==
    IF s = <<>> THEN <<>>
    ELSE InsertOldestFirst(s[Len(s)], SortOldestFirst(SubSeq(s, 1, Len(s) - 1)))

\* The mutant of IsCompleted: the status alone decides, in every handler.
IsCompletedByStatus(v, run) == run.status = "completed"

\* The test of the completed partition: status 'completed' and a conclusion in
\* check-batch-results.js, status 'completed' alone in the other handlers.
IsCompleted(v, run) ==
    IF v \in {CBR1, CBR2}
    THEN run.status = "completed" /\ run.conclusion # "null"
    ELSE run.status = "completed"

\* The test of the still-running partition.
IsRunning(v, run) ==
    IF v \in {CBR1, CBR2}
    THEN run.status # "completed" \/ run.conclusion = "null"
    ELSE run.status # "completed"

Min(a, b) == IF a < b THEN a ELSE b

\* The runs of one list answer: the whole first page of 50 in the unpaginated
\* handlers, page number page of the list in part_000.
PageOf(v, world, page) ==
    IF v = GPR2
    THEN SubSeq(world, (page - 1) * PerPage + 1, Min(page * PerPage, Len(world)))
    ELSE SubSeq(world, 1, Min(ListPageSize, Len(world)))

\* The entry of one completed run.
AnalyzeEntry(v, run) ==
    LET workflow == [id |-> run.id, conclusion |-> run.conclusion]
    IN  IF v \in LockVariants
        THEN AnalyzeRun(v, workflow, Evidence(run.evidence).lockLogs,
                        Evidence(run.evidence).lockJobs)
        ELSE extractRealPricingData(v, workflow, Evidence(run.evidence).pricingJobs,
                                    Evidence(run.evidence).pricingLogs)

\* results.filter(r => r.locked).length
CountLocked(results) == Len(SelectSeq(results, LAMBDA r : r.locked))

\* results.filter(r => r.pricingStatus === status).length
CountPricing(results, status) == Len(SelectSeq(results, LAMBDA r : r.pricingStatus = status))

\* Math.round((successfulLocks / results.length) * 100), 0 for no results.
SuccessRate(good, total) ==
    IF total > 0 THEN (200 * good + total) \div (2 * total) ELSE 0

\* The 200 answer.
BatchAnswer(v, results, running) ==
    IF v \in LockVariants
    THEN JsonResponse(200,
           [success |-> TRUE,
            summary |-> [totalProcessed |-> Len(results),
                         successfulLocks |-> CountLocked(results),
                         failedLocks |-> Len(SelectSeq(results, LAMBDA r : ~r.locked)),
                         successRate |-> SuccessRate(CountLocked(results), Len(results)),
                         stillProcessing |-> Len(running),
                         isComplete |-> (Len(running) = 0)],
            results |-> results,
            timestamp |-> "now"])
    ELSE JsonResponse(200,
           [success |-> TRUE,
            pricingResults |-> results,
            allPricingComplete |-> (Len(running) = 0),
            summary |-> [totalPriced |-> Len(results),
                         stillProcessing |-> Len(running),
                         successfulPricing |-> CountPricing(results, "success"),
                         failedPricing |-> CountPricing(results, "error")],
            timestamp |-> "now"])

\* The mutant of PushResult: an entry that reports a failure is dropped.
PushResultUnlessFailed(v, results, entry) ==
    IF (v \in LockVariants /\ entry.status \in {"analysis_error", "log_fetch_failed",
                                                 "decompression_failed", "conclusion_based",
                                                 "workflow_conclusion_only"})
       \/ (v \in PricingVariants /\ entry.extractionMethod = "error")
    THEN results
    ELSE Append(results, entry)

\* if (loanResult) results.push(loanResult): every entry is an object.
PushResult(v, results, entry) == Append(results, entry)

(***************************************************************************)
(* One invocation of an aggregator handler. batch.pc is the await the      *)
(* handler is suspended at: "list" (a list-runs request) or "analyze" (the *)
(* analysis of the next completed run).                                    *)
(***************************************************************************)

\* The mutant of BatchFresh: the page counter is kept across invocations, as a
\* binding of the module rather than of the handler would be.
BatchFreshKeepingPage(v, r, tok) ==
    [pc |-> "idle", v |-> v, req |-> r, token |-> tok, lists |-> 0,
     page |-> IF batch.last.kind = "answered" THEN batch.last.page ELSE 1,
     world |-> <<>>, allWorkflows |-> <<>>, batchWorkflows |-> <<>>,
     completedWorkflows |-> <<>>, runningWorkflows |-> <<>>, next |-> 1,
     inFlight |-> {}, results |-> <<>>, resp |-> NoResponse, last |-> NoLast]

BatchFresh(v, r, tok) ==
    [pc |-> "idle", v |-> v, req |-> r, token |-> tok, lists |-> 0, page |-> 1,
     world |-> <<>>, allWorkflows |-> <<>>, batchWorkflows |-> <<>>,
     completedWorkflows |-> <<>>, runningWorkflows |-> <<>>, next |-> 1,
     inFlight |-> {}, results |-> <<>>, resp |-> NoResponse, last |-> NoLast]

BatchEnd(b, r) == [b EXCEPT !.pc = "done", !.resp = r]

\* The handler up to its first await.
HandleBatchRequest(v, r, tok) ==
    LET b == BatchFresh(v, r, tok)
    IN  IF r.method = "OPTIONS" THEN BatchEnd(b, EmptyResponse(200))
        ELSE IF r.method # "POST" THEN BatchEnd(b, JsonResponse(405, MethodNotAllowedBody))
        ELSE IF ~r.hasBody THEN BatchEnd(b, BatchCatch(BodyUndefined))
        ELSE IF ~Truthy(r.batchStartTime) THEN BatchEnd(b, JsonResponse(400, MissingStartBody))
        ELSE IF ~tok THEN BatchEnd(b, BatchCatch(TokenMissing))
        ELSE [b EXCEPT !.pc = "list", !.lists = 1]

\* part_000 101: const BATCH_SIZE = 5
BATCH_SIZE == 5

\* The mutant of StartGroup: every remaining run is mapped to a pipeline at once.
StartAll(b, first) ==
    [b EXCEPT !.pc = "group", !.next = first,
              !.inFlight = first..Len(b.completedWorkflows)]

\* part_000 102-123: the slice of BATCH_SIZE runs from place first is mapped to
\* its pipelines, each of which runs to its first await at once.
StartGroup(b, first) ==
    [b EXCEPT !.pc = "group", !.next = first,
              !.inFlight = first..Min(first + BATCH_SIZE - 1, Len(b.completedWorkflows))]

RECURSIVE PushGroup(_, _, _)
\* pricingResults.push(...batchResults.filter(Boolean)), the results of
\* Promise.all being in the order of the slice.
PushGroup(v, results, runs) ==
    IF runs = <<>> THEN results
    ELSE PushGroup(v, PushResult(v, results, AnalyzeEntry(v, Head(runs))), Tail(runs))

\* The handler from the end of the listing: sort, partition, and either the
\* first analysis or, with nothing completed, the answer.
AfterListing(b, allWorkflows) ==
    LET batchWorkflows == SortOldestFirst(allWorkflows)
        completedWorkflows == SelectSeq(batchWorkflows, LAMBDA run : IsCompleted(b.v, run))
        runningWorkflows == SelectSeq(batchWorkflows, LAMBDA run : IsRunning(b.v, run))
        c == [b EXCEPT !.allWorkflows = allWorkflows, !.batchWorkflows = batchWorkflows,
                       !.completedWorkflows = completedWorkflows,
                       !.runningWorkflows = runningWorkflows]
    IN  IF Len(completedWorkflows) = 0
        THEN BatchEnd(c, BatchAnswer(b.v, <<>>, runningWorkflows))
        ELSE IF b.v = GPR2 THEN StartGroup(c, 1)
        ELSE [c EXCEPT !.pc = "analyze", !.next = 1, !.inFlight = {1}]

\* The mutant of AfterPage: the loop goes on while hasMore, without the cap on
\* the page number.
AfterPageUncapped(b, pageRuns) ==
    LET allWorkflows == b.allWorkflows \o SelectSeq(pageRuns, LAMBDA run : InWindow(b.v, run))
        hasMore == /\ b.v = GPR2
                   /\ Len(pageRuns) = PerPage
                   /\ pageRuns[Len(pageRuns)].created >= 0 - BufferMs(b.v)
    IN  IF hasMore
        THEN [b EXCEPT !.allWorkflows = allWorkflows, !.page = b.page + 1,
                       !.lists = b.lists + 1]
        ELSE AfterListing(b, allWorkflows)

\* The handler from a 2xx list answer that carries the runs of the page.
AfterPage(b, pageRuns) ==
    LET allWorkflows == b.allWorkflows \o SelectSeq(pageRuns, LAMBDA run : InWindow(b.v, run))
        hasMore == /\ b.v = GPR2
                   /\ Len(pageRuns) = PerPage
                   /\ pageRuns[Len(pageRuns)].created >= 0 - BufferMs(b.v)
    IN  IF hasMore /\ b.page + 1 <= MaxPages
        THEN [b EXCEPT !.allWorkflows = allWorkflows, !.page = b.page + 1,
                       !.lists = b.lists + 1]
        ELSE AfterListing(b, allWorkflows)

BatchRequest ==
    /\ batch.pc = "idle"
    /\ batch.last.kind = "none"
    /\ \E v \in BatchVariants, r \in BatchRequests, tok \in BOOLEAN :
          batch' = HandleBatchRequest(v, r, tok)
    /\ UNCHANGED <<trig, lock, price, race>>

\* The caller polls again: the same handler gets the same request as in the
\* previous invocation.
BatchRequestRepeated ==
    /\ batch.pc = "idle"
    /\ batch.last.kind = "answered"
    /\ batch' = [HandleBatchRequest(batch.last.v, batch.last.req, TRUE)
                    EXCEPT !.last = batch.last]
    /\ UNCHANGED <<trig, lock, price, race>>

\* A list-runs request is settled: rejected, refused, answered without
\* workflow_runs, or answered with a page of the platform's run list. The
\* platform's list is the same for every page of one invocation, and in a
\* repeated poll the same as in the previous invocation.
BatchListReturns ==
    /\ batch.pc = "list"
    /\ \/ \E err \in {FetchRejected, ListFailed, RunsUndefined} :
             batch' = BatchEnd(batch, BatchCatch(err))
       \/ \E w \in (IF batch.last.kind = "answered" THEN {batch.last.world}
                     ELSE IF batch.lists > 1 THEN {batch.world}
                     ELSE PlatformLists) :
             batch' = AfterPage([batch EXCEPT !.world = w], PageOf(batch.v, w, batch.page))
    /\ UNCHANGED <<trig, lock, price, race>>

\* The analysis of the next completed run has returned its entry; after the
\* last one the handler answers.
BatchRunAnalysed ==
    /\ batch.pc = "analyze"
    /\ LET run == batch.completedWorkflows[batch.next]
           results == PushResult(batch.v, batch.results, AnalyzeEntry(batch.v, run))
       IN  batch' = IF batch.next = Len(batch.completedWorkflows)
                    THEN BatchEnd([batch EXCEPT !.results = results, !.inFlight = {}],
                                  BatchAnswer(batch.v, results, batch.runningWorkflows))
                    ELSE [batch EXCEPT !.results = results, !.next = batch.next + 1,
                                       !.inFlight = {batch.next + 1}]
    /\ UNCHANGED <<trig, lock, price, race>>

\* The group of part_000 is joined: Promise.all has resolved, the entries of the
\* slice are pushed in order, and the handler starts the next slice or answers.
AfterGroup(b) ==
    LET last == Min(b.next + BATCH_SIZE - 1, Len(b.completedWorkflows))
        results == PushGroup(b.v, b.results, SubSeq(b.completedWorkflows, b.next, last))
        c == [b EXCEPT !.results = results, !.inFlight = {}]
    IN  IF b.next + BATCH_SIZE <= Len(b.completedWorkflows)
        THEN StartGroup(c, b.next + BATCH_SIZE)
        ELSE BatchEnd(c, BatchAnswer(b.v, results, b.runningWorkflows))

\* One pipeline of the group in flight returns its entry, in any order; the
\* last one to return resolves Promise.all.
PipelineReturns ==
    /\ batch.pc = "group"
    /\ \E i \in batch.inFlight :
          batch' = IF batch.inFlight = {i}
                   THEN AfterGroup(batch)
                   ELSE [batch EXCEPT !.inFlight = batch.inFlight \ {i}]
    /\ UNCHANGED <<trig, lock, price, race>>

BatchInvocationEnds ==
    /\ batch.pc = "done"
    /\ batch' = BatchIdle
    /\ UNCHANGED <<trig, lock, price, race>>

\* The counts of a 200 answer: the summary and the completion flag.
CountsOf(v, body) ==
    [summary |-> body.summary,
     complete |-> IF v \in LockVariants THEN body.summary.isComplete
                  ELSE body.allPricingComplete]

\* An invocation that answered 200 is over and the caller will poll again with
\* the same batchStartTime while the platform's runs, jobs and logs stay as
\* they are.
BatchInvocationEndsBeforeRepeat ==
    /\ batch.pc = "done"
    /\ batch.last.kind = "none"
    /\ batch.resp.sent = "json"
    /\ batch.resp.status = 200
    /\ batch' = [pc |-> "idle",
                 last |-> [kind |-> "answered", v |-> batch.v, req |-> batch.req,
                           world |-> batch.world, page |-> batch.page,
                           counts |-> CountsOf(batch.v, batch.resp.body)]]
    /\ UNCHANGED <<trig, lock, price, race>>

InitBatch == trig = TrigIdle /\ lock = LockIdle /\ price = PriceIdle /\ batch = BatchIdle /\ race = RaceIdle

NextBatch ==
    \/ BatchRequest
    \/ BatchListReturns
    \/ BatchRunAnalysed
    \/ PipelineReturns
    \/ BatchInvocationEnds
    \/ BatchInvocationEndsBeforeRepeat
    \/ BatchRequestRepeated

SpecBatch == InitBatch /\ [][NextBatch]_vars

\* A run dispatched after batchStartTime that the platform starts to list
\* while the aggregator is at work or between two polls: the newest of the
\* list, in progress.
LateRun ==
    [id |-> 0, created |-> 5000, status |-> "in_progress", conclusion |-> "null",
     evidence |-> "unavailable"]

\* The platform lists the late run: between two page requests of the
\* paginated listing, which moves every run one place down, or between two
\* polls of the caller.
PlatformRunCreated ==
    /\ \/ /\ batch.pc = "list"
          /\ batch.lists > 1
          /\ batch.last.kind = "none"
          /\ \A k \in 1..Len(batch.world) : batch.world[k].id # LateRun.id
          /\ batch' = [batch EXCEPT !.world = <<LateRun>> \o batch.world]
       \/ /\ batch.pc = "idle"
          /\ batch.last.kind = "answered"
          /\ \A k \in 1..Len(batch.last.world) : batch.last.world[k].id # LateRun.id
          /\ batch' = [batch EXCEPT !.last.world = <<LateRun>> \o batch.last.world]
    /\ UNCHANGED <<trig, lock, price, race>>

NextBatchEvolving == NextBatch \/ PlatformRunCreated

\* The aggregators against a platform whose run list grows.
SpecBatchEvolving == InitBatch /\ [][NextBatchEvolving]_vars

(***************************************************************************)
(* Claims about the aggregator handlers                                    *)
(***************************************************************************)

\* The invocation answered 200.
Answered200 ==
    /\ batch.pc = "done"
    /\ batch.resp.sent = "json"
    /\ batch.resp.status = 200

\* The places of the platform's list whose run was created at or after
\* batchStartTime - 30 s.
WindowPlaces == {i \in 1..Len(batch.world) : batch.world[i].created >= 0 - 30000}

\* The places of the window whose run is completed: status 'completed' and a
\* conclusion present.
CompletedPlaces ==
    {i \in WindowPlaces : /\ batch.world[i].status = "completed"
                          /\ batch.world[i].conclusion # "null"}

\* The window is the three-run example: A completed with a success marker, B
\* completed with conclusion 'failure' and no marker, C in progress.
ExampleWindow ==
    /\ WindowPlaces = 1..3
    /\ \E a, b, c \in 1..3 :
          /\ {a, b, c} = 1..3
          /\ batch.world[a].status = "completed" /\ batch.world[a].evidence = "marker"
          /\ batch.world[b].status = "completed" /\ batch.world[b].conclusion = "failure"
          /\ batch.world[b].evidence = "silent"
          /\ batch.world[c].status = "in_progress"

ExampleSummary ==
    [totalProcessed |-> 2, successfulLocks |-> 1, failedLocks |-> 1, successRate |-> 50,
     stillProcessing |-> 1, isComplete |-> FALSE]

C6_CompletedPartition ==
    Answered200
    => LET window == batch.batchWorkflows
           inCompleted == {batch.completedWorkflows[k].id :
                              k \in 1..Len(batch.completedWorkflows)}
           others == {k \in 1..Len(window) :
                        ~(window[k].status = "completed" /\ window[k].conclusion # "null")}
           flag == IF batch.v \in LockVariants
                   THEN batch.resp.body.summary.isComplete
                   ELSE batch.resp.body.allPricingComplete
       IN  /\ \A k \in 1..Len(window) : (window[k].id \in inCompleted) <=> (k \notin others)
           /\ batch.resp.body.summary.stillProcessing = Cardinality(others)
           /\ flag = (others = {})

\* The entry reports the failure the run's evidence stands for: with the
\* evidence unavailable, an entry that is marked as not coming from the normal
\* analysis; with a marker that does not parse, an entry that reports no lock
\* (no price).
Degraded(v, run, entry) ==
    CASE run.evidence = "unavailable" ->
           IF v \in LockVariants
           THEN entry.status \notin {"pattern_search", "log_analysis", "analyzed"}
           ELSE entry.pricingStatus = "error"
      [] run.evidence = "broken" ->
           IF v \in LockVariants THEN ~entry.locked ELSE entry.pricingStatus = "error"
      [] OTHER -> TRUE

\* C7: in every aggregator, once the runs are listed the handler answers 200
\* with success true whatever the analysis of each run met, and the results
\* hold, in order, one entry per run of the completed partition: the entry of
\* a run whose analysis failed is a degraded one, and the entry of every other
\* run is what its own analysis gives.
C7_RunFailureContained ==
    (batch.pc = "done" /\ Len(batch.completedWorkflows) > 0)
    => LET completed == batch.completedWorkflows
           results == IF batch.v \in LockVariants THEN batch.resp.body.results
                      ELSE batch.resp.body.pricingResults
       IN  /\ Answered200
           /\ batch.resp.body.success = TRUE
           /\ Len(results) = Len(completed)
           /\ \A k \in 1..Len(completed) :
                 /\ results[k].workflowId = completed[k].id
                 /\ results[k] = AnalyzeEntry(batch.v, completed[k])
                 /\ Degraded(batch.v, completed[k], results[k])

\* C7 witness: an answered window with a completed run whose evidence is
\* unavailable or broken next to a completed run with a marker.
C7_Witness ==
    /\ Answered200
    /\ \E j, k \in 1..Len(batch.completedWorkflows) :
          /\ batch.completedWorkflows[j].evidence \in {"unavailable", "broken"}
          /\ batch.completedWorkflows[k].evidence = "marker"

\* The places of the platform's list that the answered list requests covered:
\* the first 50 in the unpaginated handlers, the pages fetched in part_000.
ListedPlaces ==
    1..Min(Len(batch.world),
           IF batch.v = GPR2 THEN batch.lists * PerPage ELSE ListPageSize)

\* C15: the handler's run set is exactly the listed runs created at or after
\* batchStartTime - 30 s, in ascending order of creation time.
C15_WindowIsBuffered ==
    Answered200
    => LET runs == batch.batchWorkflows
       IN  /\ {runs[k].id : k \in 1..Len(runs)}
                 = {batch.world[i].id : i \in ListedPlaces \cap WindowPlaces}
           /\ Len(runs) = Cardinality(ListedPlaces \cap WindowPlaces)
           /\ \A k \in 1..(Len(runs) - 1) : runs[k].created <= runs[k + 1].created

\* Page p of the platform's list ends the paginated listing: it has fewer than
\* PerPage runs, or its oldest run is older than the cutoff.
EndsListing(p) ==
    LET pageRuns == PageOf(GPR2, batch.world, p)
    IN  \/ Len(pageRuns) < PerPage
        \/ pageRuns[Len(pageRuns)].created < 0 - 30000

\* The page at which the paginated listing stops: the first that ends it, and
\* page MaxPages when none of the first MaxPages pages does.
StopPage ==
    IF \E p \in 1..MaxPages : EndsListing(p)
    THEN CHOOSE p \in 1..MaxPages : EndsListing(p) /\ \A q \in 1..(p - 1) : ~EndsListing(q)
    ELSE MaxPages

\* C16: the paginated listing of get-pricing-results never issues more than
\* MaxPages list requests in one invocation, and once the listing is over it
\* has issued exactly as many as the first page that is short or reaches
\* behind the cutoff, MaxPages at most.
C16_ListingBounded ==
    (batch.pc # "idle" /\ batch.v = GPR2)
    => /\ batch.lists <= MaxPages
       /\ (batch.pc = "group" \/ Answered200) => batch.lists = StopPage

\* C16 witness: an invocation answered after the cap stopped the listing, the
\* fifth page being full and wholly inside the window.
C16_Witness ==
    /\ Answered200
    /\ batch.v = GPR2
    /\ batch.lists = MaxPages
    /\ Len(batch.world) > MaxPages * PerPage
    /\ batch.world[MaxPages * PerPage].created >= 0 - 30000

\* C17: in get-pricing-results at most BATCH_SIZE pipelines are in flight at
\* any moment; the pipelines in flight all belong to the group that starts at
\* batch.next, and the entries of every earlier run, and of no run of that
\* group, have been joined into the results.
C17_GroupsOfFive ==
    (batch.pc \in {"analyze", "group"} /\ batch.v \in PricingVariants)
    => /\ Cardinality(batch.inFlight) <= BATCH_SIZE
       /\ batch.inFlight # {}
       /\ batch.inFlight \subseteq batch.next..(batch.next + BATCH_SIZE - 1)
       /\ Len(batch.results) = batch.next - 1
       /\ batch.v = GPR2 => (batch.next - 1) % BATCH_SIZE = 0

\* C17 witness: the second group of part_000 is in flight, some of its
\* pipelines having returned, the first group being joined.
C17_Witness ==
    /\ batch.pc = "group"
    /\ batch.v = GPR2
    /\ batch.next = BATCH_SIZE + 1
    /\ Len(batch.results) = BATCH_SIZE
    /\ Cardinality(batch.inFlight) = 2

C25_RunCountedOnce ==
    (Answered200 /\ batch.v = GPR2)
    => /\ \A i, j \in 1..Len(batch.results) :
              batch.results[i].workflowId = batch.results[j].workflowId => i = j
       /\ \A i, j \in 1..Len(batch.runningWorkflows) :
              batch.runningWorkflows[i].id = batch.runningWorkflows[j].id => i = j

\* C27: in every 200 answer of get-pricing-results the successful and the
\* failed entries add up to the entries priced, whatever pricing_status the
\* runs' markers carry.
C27_PricingCountsAddUp ==
    (Answered200 /\ batch.v \in PricingVariants)
    => batch.resp.body.summary.successfulPricing + batch.resp.body.summary.failedPricing
         = batch.resp.body.summary.totalPriced

\* C26: once a poll of check-batch-results has answered isComplete true, the
\* next poll with the same batchStartTime answers isComplete true as well,
\* whatever runs the platform has come to list in between.
C26_CompleteStaysComplete ==
    ( /\ Answered200
      /\ batch.v \in LockVariants
      /\ batch.last.kind = "answered"
      /\ batch.last.counts.complete )
    => batch.resp.body.summary.isComplete

(***************************************************************************)
(* Claims about the trigger handlers                                       *)
(***************************************************************************)

\* The request of the invocation carries every required field.
RequiredFieldsPresent ==
    /\ trig.req.method = "POST"
    /\ trig.req.hasBody
    /\ Truthy(trig.req.loanData)
    /\ Truthy(trig.req.credentials)

\* The invocation answered with a JSON body {success: false, message, timestamp}
\* under the given status.
AnsweredFailure(code) ==
    /\ trig.resp.sent = "json"
    /\ trig.resp.status = code
    /\ {"success", "message", "timestamp"} \subseteq DOMAIN trig.resp.body
    /\ trig.resp.body.success = FALSE

\* C2: after a successful dispatch no trigger handler lists the runs a second
\* time before it answers, that is, none polls for the run's completion.
C2_NoPollBeforeAck == trig.lists <= 1

\* C3: a POST to trigger-loan, trigger-pricing-only or trigger-selective-locks
\* whose loanData is empty or missing, or whose credentials are missing, makes no
\* external call and is answered 400.
C3_EmptyRequestRejected ==
    ( /\ trig.pc # "idle"
      /\ trig.v \in {TL, TPO, TSL, TSLN}
      /\ trig.req.method = "POST"
      /\ trig.req.hasBody
      /\ \/ trig.req.loanData \in {"undefined", "null", "emptyString", "emptyObject"}
         \/ trig.req.credentials = "undefined" )
    => /\ trig.dispatches = 0
       /\ trig.lists = 0
       /\ trig.pc = "done"
       /\ trig.resp.sent = "json"
       /\ trig.resp.status = 400

\* C8: when the dispatch call answers non-2xx, the handler answers 500 with
\* {success: false, message, timestamp}, the message carrying the upstream
\* status and body, and has made exactly one dispatch call.
C8_DispatchErrorAnswered ==
    (trig.pc = "done" /\ trig.dispatchOutcome.kind = "notok")
    => /\ AnsweredFailure(500)
       /\ trig.resp.body.message.kind = "GitHub dispatch failed"
       /\ trig.resp.body.message.status = trig.dispatchOutcome.status
       /\ trig.resp.body.message.text = trig.dispatchOutcome.text
       /\ trig.dispatches = 1

\* C9: a POST with every required field, while GITHUB_TOKEN is not configured,
\* is answered 500 with {success: false, message, timestamp} and makes no
\* external call.
C9_MissingTokenAnswered ==
    (trig.pc = "done" /\ RequiredFieldsPresent /\ ~trig.token)
    => /\ AnsweredFailure(500)
       /\ trig.dispatches = 0
       /\ trig.lists = 0

\* C10: every JSON response a handler sends carries a boolean success and a
\* timestamp.
C10_ResponseShape ==
    (trig.pc = "done" /\ trig.resp.sent = "json")
    => /\ {"success", "timestamp"} \subseteq DOMAIN trig.resp.body
       /\ trig.resp.body.success \in BOOLEAN

\* The invocation answered 200 with success: true.
AnsweredSuccess ==
    /\ trig.pc = "done"
    /\ trig.resp.sent = "json"
    /\ trig.resp.status = 200
    /\ trig.resp.body.success = TRUE

\* C11: once a request with every required field has passed the token check,
\* the invocation has issued exactly one dispatch call, at every later point
\* of the invocation and whatever the dispatch and list-runs calls answered.
C11_SingleDispatch ==
    (trig.pc # "idle" /\ RequiredFieldsPresent /\ trig.token) => trig.dispatches = 1

\* C11 witness: an invocation whose dispatch call was refused has ended.
C11_Witness ==
    /\ trig.pc = "done"
    /\ RequiredFieldsPresent
    /\ trig.token
    /\ trig.dispatchOutcome.kind = "notok"
    /\ trig.dispatches = 1

\* C12: every success answer of a trigger handler carries the request's
\* loanIndex unchanged, and the dispatch payload's loan_index is that value.
C12_LoanIndexRoundTrip ==
    AnsweredSuccess
    => /\ "loanIndex" \in DOMAIN trig.resp.body
       /\ trig.resp.body.loanIndex = trig.req.loanIndex
       /\ trig.payloadIndex = trig.req.loanIndex

\* C12 witness: trigger-loan answered success for loan 1 although the run
\* list could not be fetched.
C12_Witness ==
    /\ AnsweredSuccess
    /\ trig.v = TL
    /\ "note" \in DOMAIN trig.resp.body
    /\ trig.req.loanIndex = 1
    /\ trig.resp.body.loanIndex = 1

\* The polls of monitorWorkflowCompletion were used up without a completed
\* recent run being seen.
PollsUsedUp ==
    trig.pc = "done" /\ trig.v = TLS /\ trig.attempt = maxAttempts

\* C21: monitorWorkflowCompletion issues at most maxAttempts list-runs
\* requests; when they are used up its result has success false and the
\* timed-out message; and whatever the list-runs requests produce, a poll loop
\* that was entered ends with the handler's answer.
C21_PollingTerminates ==
    /\ [](trig.lists <= maxAttempts)
    /\ [](PollsUsedUp => /\ trig.resp.status = 200
                         /\ trig.resp.body.workflowStatus.success = FALSE
                         /\ trig.resp.body.workflowStatus.message =
                              "Workflow monitoring timed out - automation may still be running")
    /\ (trig.pc = "monitor" ~> trig.pc = "done")

\* C21 witness: the loop issued all its list-runs requests and timed out.
C21_Witness ==
    /\ PollsUsedUp
    /\ trig.lists = maxAttempts
    /\ trig.resp.body.workflowStatus = MonitorTimedOut

\* C23: once the dispatch call has answered 2xx, the invocation ends with a
\* 200 answer whose success is true, whatever the list-runs call produces; no
\* answer with success false follows an accepted dispatch.
C23_AcceptedDispatchAnswered ==
    (trig.pc = "done" /\ trig.dispatchOutcome.kind = "ok") => AnsweredSuccess

\* C30: between two consecutive list-runs requests of
\* monitorWorkflowCompletion the loop waits: no step leads from one pending
\* list-runs request straight to the next one, whatever the request answered.
C30_SleepBetweenPolls ==
    [][~(/\ trig.pc = "monitor"
         /\ trig'.pc = "monitor"
         /\ trig'.lists = trig.lists + 1)]_vars

====
